---- MODULE Spec2Model ----
(***************************************************************************)
(* A state-machine model of the XSLT transformation core of                *)
(* libxslt/transform.c.  The recursive interpreter is modelled by an       *)
(* explicit call stack: every C function of transform.c that can recurse   *)
(* is a frame kind, every stretch of code between two calls is an action.  *)
(*                                                                         *)
(* Pointers: a source node is its index in the source document (0 is       *)
(* NULL), a result node is its index in the result document (0 is NULL,    *)
(* 1 is the document node), a stylesheet node is a (template, path) pair   *)
(* and a node set is an index into the heap of node sets (0 is NULL).      *)
(* Strings are sequences of character codes.                               *)
(***************************************************************************)
EXTENDS Integers, Sequences, FiniteSets, TLC

\* Largest number of children of the source root element.
MaxKids == 2
\* Number of times the stylesheet is applied to the same source document.
MaxRuns == 2

(***************************************************************************)
(* Strings                                                                 *)
(***************************************************************************)
\* xsltIsBlank: every character is XML whitespace (space, tab, LF, CR).
xsltIsBlank(s) == \A k \in 1..Len(s) : s[k] \in {32, 9, 10, 13}

RECURSIVE Concat(_)
\* The concatenation of a sequence of strings.
Concat(ss) == IF ss = <<>> THEN <<>> ELSE Head(ss) \o Concat(Tail(ss))

RECURSIVE DigitsValue(_, _)
DigitsValue(s, acc) ==
    IF s = <<>> THEN acc ELSE DigitsValue(Tail(s), 10 * acc + (Head(s) - 48))

RECURSIVE TrimLeft(_)
TrimLeft(s) ==
    IF s # <<>> /\ Head(s) \in {32, 9, 10, 13} THEN TrimLeft(Tail(s)) ELSE s

RECURSIVE TrimRight(_)
TrimRight(s) ==
    IF s # <<>> /\ s[Len(s)] \in {32, 9, 10, 13}
    THEN TrimRight(SubSeq(s, 1, Len(s) - 1)) ELSE s

\* The XPath number() of a string: optional whitespace, digits, optional
\* whitespace; anything else is NaN, written -1 here.
StringToNumber(s) ==
    LET t == TrimRight(TrimLeft(s))
    IN  IF t # <<>> /\ \A k \in 1..Len(t) : t[k] \in 48..57
        THEN DigitsValue(t, 0) ELSE -1

RECURSIVE NumberDigits(_)
NumberDigits(n) ==
    IF n < 10 THEN <<48 + n>> ELSE NumberDigits(n \div 10) \o <<48 + (n % 10)>>

\* The XPath string() of a number (integers only; NaN prints as "NaN").
NumberToString(n) == IF n < 0 THEN <<78, 97, 78>> ELSE NumberDigits(n)

RECURSIVE StrLess(_, _)
\* Strict lexicographic order of two strings by character code.
StrLess(a, b) ==
    IF b = <<>> THEN FALSE
    ELSE IF a = <<>> THEN TRUE
    ELSE IF Head(a) # Head(b) THEN Head(a) < Head(b)
    ELSE StrLess(Tail(a), Tail(b))

(***************************************************************************)
(* Source documents                                                        *)
(*                                                                         *)
(* A document is a sequence of node records; node 1 is the document, node  *)
(* 2 its root element r, nodes 3.. the children of r, then the text        *)
(* children of the element children.                                       *)
(***************************************************************************)
SrcNode(type, name, content, parent, children) ==
    [type |-> type, name |-> name, content |-> content, parent |-> parent,
     children |-> children, freed |-> FALSE]

\* The kinds of child the root element may have: an element i holding the
\* text 10, an element i holding the text 2, a text node 7, a blank text
\* node, a CDATA section 5 and a comment.
KidKinds == {"i10", "i2", "text", "blank", "cdata", "comment"}

KidIsElem(k) == k \in {"i10", "i2"}

KidSeqs == UNION {[1..n -> KidKinds] : n \in 0..MaxKids}

MakeDoc(kids) ==
    LET n == Len(kids)
        elems == {j \in 1..n : KidIsElem(kids[j])}
        \* index of the text child of element kid j
        TextOf(j) == 2 + n + Cardinality({e \in elems : e <= j})
        KidNode(j) ==
            CASE kids[j] \in {"i10", "i2"} ->
                    SrcNode("element", "i", <<>>, 2, <<TextOf(j)>>)
              [] kids[j] = "text" -> SrcNode("text", "text", <<55>>, 2, <<>>)
              [] kids[j] = "blank" -> SrcNode("text", "text", <<32>>, 2, <<>>)
              [] kids[j] = "cdata" -> SrcNode("cdata", "cdata", <<53>>, 2, <<>>)
              [] OTHER -> SrcNode("comment", "comment", <<99>>, 2, <<>>)
        ElemOfText(t) == CHOOSE j \in elems : TextOf(j) = t
        TextNode(t) ==
            SrcNode("text", "text",
                    IF kids[ElemOfText(t)] = "i10" THEN <<49, 48>> ELSE <<50>>,
                    2 + ElemOfText(t), <<>>)
    IN  [x \in 1..(2 + n + Cardinality(elems)) |->
            IF x = 1 THEN SrcNode("document", "/", <<>>, 0, <<2>>)
            ELSE IF x = 2
                 THEN SrcNode("element", "r", <<>>, 1, [j \in 1..n |-> 2 + j])
            ELSE IF x <= 2 + n THEN KidNode(x - 2)
            ELSE TextNode(x)]

Docs == {MakeDoc(k) : k \in KidSeqs}

(***************************************************************************)
(* Source tree primitives (libxml2 tree API as transform.c uses it)        *)
(***************************************************************************)
NULL == "#null"

\* node->next: the following sibling in the parent's child list, 0 if none.
NextSibling(s, n) ==
    LET p == s[n].parent
    IN  IF p = 0 THEN 0
        ELSE LET ch == s[p].children
                 k == CHOOSE x \in 1..Len(ch) : ch[x] = n
             IN  IF k < Len(ch) THEN ch[k + 1] ELSE 0

\* node->children: the first child, 0 if none.
FirstChild(s, n) == IF s[n].children = <<>> THEN 0 ELSE s[n].children[1]

RECURSIVE Without(_, _)
Without(seq, x) ==
    IF seq = <<>> THEN <<>>
    ELSE IF Head(seq) = x THEN Without(Tail(seq), x)
    ELSE <<Head(seq)>> \o Without(Tail(seq), x)

\* xmlUnlinkNode(n); xmlFreeNode(n).
UnlinkAndFree(s, n) ==
    [s EXCEPT ![s[n].parent].children = Without(@, n),
              ![n].parent = 0, ![n].freed = TRUE]

RECURSIVE StringValue(_, _)
\* The XPath string-value of a source node.
StringValue(s, n) ==
    IF s[n].type \in {"element", "document"}
    THEN LET ch == s[n].children
         IN  Concat([k \in 1..Len(ch) |->
                        IF s[ch[k]].type \in {"element", "text", "cdata"}
                        THEN StringValue(s, ch[k]) ELSE <<>>])
    ELSE s[n].content

(***************************************************************************)
(* The XPath engine (external): the expressions the stylesheets use and    *)
(* the three coercions.  An object is [type, nodes, str, num, bool].       *)
(***************************************************************************)
XObj(type, nodes, str, num, bool) ==
    [type |-> type, nodes |-> nodes, str |-> str, num |-> num, bool |-> bool]

ElemChildren(s, n) ==
    LET IsElem(c) == s[c].type = "element" IN SelectSeq(s[n].children, IsElem)

\* xmlXPathEvalExpr on the expression expr with context node n, context
\* size size and proximity position pos.
XPathEval(expr, s, n, size, pos) ==
    CASE expr = "." -> XObj("nodeset", <<n>>, <<>>, 0, FALSE)
      [] expr = "*" -> XObj("nodeset", ElemChildren(s, n), <<>>, 0, FALSE)
      [] expr = "node()" -> XObj("nodeset", s[n].children, <<>>, 0, FALSE)
      [] expr = "*/*" ->
            LET es == ElemChildren(s, n)
            IN  XObj("nodeset",
                     Concat([k \in 1..Len(es) |-> ElemChildren(s, es[k])]),
                     <<>>, 0, FALSE)
      [] expr = "*/node()" ->
            LET es == ElemChildren(s, n)
            IN  XObj("nodeset",
                     Concat([k \in 1..Len(es) |-> s[es[k]].children]),
                     <<>>, 0, FALSE)
      [] expr = "*|*/node()" ->
            LET es == ElemChildren(s, n)
            IN  XObj("nodeset",
                     Concat([k \in 1..Len(es) |-> <<es[k]>> \o s[es[k]].children]),
                     <<>>, 0, FALSE)
      [] expr = ".." ->
            XObj("nodeset",
                 IF s[n].parent = 0 THEN <<>> ELSE <<s[n].parent>>,
                 <<>>, 0, FALSE)
      [] expr = "/" -> XObj("nodeset", <<1>>, <<>>, 0, FALSE)
      [] expr = "position()" -> XObj("number", <<>>, <<>>, pos, FALSE)
      [] expr = "last()" -> XObj("number", <<>>, <<>>, size, FALSE)
      [] expr = "true()" -> XObj("boolean", <<>>, <<>>, 0, TRUE)
      [] expr = "false()" -> XObj("boolean", <<>>, <<>>, 0, FALSE)
      [] OTHER -> XObj("string", <<>>, <<115>>, 0, FALSE)

\* xmlXPathStringFunction.
XPathString(s, o) ==
    CASE o.type = "nodeset" ->
            IF o.nodes = <<>> THEN <<>> ELSE StringValue(s, o.nodes[1])
      [] o.type = "number" -> NumberToString(o.num)
      [] o.type = "boolean" ->
            IF o.bool THEN <<116, 114, 117, 101>> ELSE <<102, 97, 108, 115, 101>>
      [] OTHER -> o.str

\* xmlXPathBooleanFunction.
XPathBoolean(o) ==
    CASE o.type = "nodeset" -> o.nodes # <<>>
      [] o.type = "number" -> o.num > 0
      [] o.type = "boolean" -> o.bool
      [] OTHER -> o.str # <<>>

(***************************************************************************)
(* Stylesheets                                                             *)
(*                                                                         *)
(* A stylesheet node is [kind, name, a, kids, content, ns, nsDef]; kind is *)
(* "xslt" for an element in the XSLT namespace, "element", "text" or       *)
(* "comment".  The attributes record a holds NULL for an attribute that is *)
(* absent; ns is the namespace of the node, nsDef the declarations on it.  *)
(***************************************************************************)
A0 == [select |-> NULL, test |-> NULL, name |-> NULL, dtype |-> NULL,
       order |-> NULL, doe |-> NULL, namespace |-> NULL]

\* A namespace declaration, and the ns of a node that has none.
Ns(prefix, href) == [prefix |-> prefix, href |-> href]
NoNs == Ns(NULL, NULL)

XE(name, a, kids) ==
    [kind |-> "xslt", name |-> name, a |-> a, kids |-> kids, content |-> <<>>,
     ns |-> NoNs, nsDef |-> <<>>]
LE(name, kids) ==
    [kind |-> "element", name |-> name, a |-> A0, kids |-> kids, content |-> <<>>,
     ns |-> NoNs, nsDef |-> <<>>]
\* A literal element with node->ns and node->nsDef.
LEns(name, ns, nsDef, kids) == [LE(name, kids) EXCEPT !.ns = ns, !.nsDef = nsDef]
TX(content) ==
    [kind |-> "text", name |-> "text", a |-> A0, kids |-> <<>>, content |-> content,
     ns |-> NoNs, nsDef |-> <<>>]
CM(content) ==
    [kind |-> "comment", name |-> "comment", a |-> A0, kids |-> <<>>,
     content |-> content,
     ns |-> NoNs, nsDef |-> <<>>]

Sel(e) == [A0 EXCEPT !.select = e]
Tst(e) == [A0 EXCEPT !.test = e]
Nam(n) == [A0 EXCEPT !.name = n]

\* A compiled template: match pattern, name, and the xsl:template element.
Template(match, name, body) ==
    [match |-> match, name |-> name, node |-> XE("template", A0, body)]

Stylesheet(method, strip, templates) ==
    [method |-> method, stripSpaces |-> strip, templates |-> templates,
     doctypePublic |-> NULL, doctypeSystem |-> NULL]

\* The stylesheet with the DOCTYPE identifiers of its xsl:output.
WithDoctype(st, public, system) ==
    [st EXCEPT !.doctypePublic = public, !.doctypeSystem = system]

\* Pointers into the stylesheet: template index and path below the
\* xsl:template element.  NullPtr is NULL.
NullPtr == [t |-> 0, p |-> <<>>]
Ptr(t, p) == [t |-> t, p |-> p]

RECURSIVE Descend(_, _)
Descend(n, path) ==
    IF path = <<>> THEN n ELSE Descend(n.kids[Head(path)], Tail(path))

\* The stylesheet node a pointer designates.
At(st, ptr) == Descend(st.templates[ptr.t].node, ptr.p)

Front(seq) == SubSeq(seq, 1, Len(seq) - 1)

\* cur->children
PChildren(st, ptr) ==
    IF At(st, ptr).kids = <<>> THEN NullPtr ELSE Ptr(ptr.t, Append(ptr.p, 1))
\* cur->next
PNext(st, ptr) ==
    IF ptr.p = <<>> THEN NullPtr
    ELSE LET k == ptr.p[Len(ptr.p)]
             up == Ptr(ptr.t, Front(ptr.p))
         IN  IF k < Len(At(st, up).kids)
             THEN Ptr(ptr.t, Append(Front(ptr.p), k + 1)) ELSE NullPtr
\* cur->parent (the xsl:template element's own parent is not modelled)
PParent(ptr) == IF ptr.p = <<>> THEN NullPtr ELSE Ptr(ptr.t, Front(ptr.p))

IS_XSLT_ELEM(st, ptr) == ptr # NullPtr /\ At(st, ptr).kind = "xslt"
IS_XSLT_NAME(st, ptr, name) == At(st, ptr).name = name

\* xmlHashLookup on the strip-space map; NULL when the key is absent.
xmlHashLookup(h, key) == IF key \in DOMAIN h THEN h[key] ELSE NULL

(***************************************************************************)
(* The stylesheets the model is run on                                     *)
(***************************************************************************)
\* Scenario 3 of the specification: for-each over the i elements, sorted.
ForEachBody(sorts) ==
    <<XE("for-each", Sel("*/*"),
         sorts \o <<XE("value-of", Sel("."), <<>>), TX(<<44>>)>>)>>

SortBy(dtype, order) ==
    XE("sort", [A0 EXCEPT !.select = ".", !.dtype = dtype, !.order = order], <<>>)

StyleEmpty == Stylesheet(NULL, <<>>, <<>>)

StyleSortNumber ==
    WithDoctype(Stylesheet("xml", <<>>,
        <<Template("/", NULL, ForEachBody(<<SortBy("number", "descending")>>))>>), "pub", "sys")

StyleSortText ==
    Stylesheet(NULL, <<>>,
        <<Template("/", NULL,
            ForEachBody(<<SortBy(NULL, NULL), SortBy("text", "ascending")>>))>>)

StyleSortPosition ==
    Stylesheet("xml", <<>>,
        <<Template("/", NULL,
            ForEachBody(<<XE("sort", [A0 EXCEPT !.select = "position()",
                                                !.dtype = "number",
                                                !.order = "descending"], <<>>)>>))>>)

\* xsl:sort with a data-type and with an order that are not supported.
StyleSortBad ==
    Stylesheet("xml", <<>>,
        <<Template("/", NULL,
            ForEachBody(<<SortBy("date", "descending"), SortBy("number", "up")>>))>>)

\* Nested iterations, one of them leaving by the "not a node-set" exit; the
\* strip-space map has the wildcard entry only.
StyleNested ==
    Stylesheet("xml", ("*" :> "strip"),
        <<Template("/", NULL, <<XE("apply-templates", Sel("*"), <<>>)>>),
          Template("r", NULL,
            <<XE("apply-templates", A0, <<SortBy("text", "descending")>>)>>),
          Template("i", NULL,
            <<XE("for-each", Sel("'s'"), <<TX(<<69>>)>>),
              XE("if", Tst("."), <<XE("value-of", Sel("position()"), <<>>)>>),
              XE("for-each", Sel("node()"), <<XE("value-of", Sel("last()"), <<>>)>>),
              XE("if", Tst("."), <<XE("value-of", Sel("."), <<>>)>>),
              XE("if", Tst("*"), <<TX(<<78>>)>>)>>)>>)

\* value-of reads the source before the default rule strips it.
StyleStrip ==
    Stylesheet("xml", ("r" :> "strip"),
        <<Template("/", NULL,
            <<XE("value-of", Sel("*"), <<>>),
              XE("apply-templates", Sel("*"), <<>>)>>)>>)

StyleStripAll ==
    WithDoctype(Stylesheet("text", ("*" :> "strip") @@ ("i" :> "preserve"), <<>>),
                "pub", NULL)

\* xsl:attribute before and after the element got children.
StyleAttribute ==
    WithDoctype(Stylesheet("html", <<>>,
        <<Template("/", NULL,
            <<LE("out",
                <<XE("attribute", Nam("a"), <<TX(<<118>>)>>),
                  TX(<<65>>),
                  XE("attribute", Nam("b"), <<TX(<<119>>)>>),
                  XE("comment", A0, <<TX(<<99>>)>>),
                  XE("processing-instruction", Nam("p"), <<TX(<<100>>)>>),
                  LE("in", <<>>)>>),
              CM(<<109>>)>>)>>), NULL, "sys")

StyleBadMethod ==
    Stylesheet("pdf", ("r" :> "strip"),
        <<Template("/", NULL, <<XE("apply-templates", Sel("*"), <<>>)>>)>>)

\* Variables, parameters and named templates, one of them unknown.
StyleCall ==
    Stylesheet("xml", <<>>,
        <<Template("/", NULL,
            <<XE("call-template", Nam("greet"),
                 <<XE("with-param", [A0 EXCEPT !.name = "who", !.select = "'s'"], <<>>),
                   TX(<<120>>),
                   XE("with-param", [A0 EXCEPT !.name = "how", !.select = "."], <<>>)>>),
              LE("a", <<XE("call-template", Nam("plain"), <<>>)>>),
              XE("variable", [A0 EXCEPT !.name = "v", !.select = "."], <<>>),
              XE("call-template", Nam("nobody"), <<>>),
              TX(<<122>>)>>),
          Template(NULL, "greet",
            <<XE("param", [A0 EXCEPT !.name = "who", !.select = "."], <<>>),
              TX(<<72>>),
              XE("call-template", Nam("plain"), <<>>)>>),
          Template(NULL, "plain", <<TX(<<80>>), XE("element", A0, <<>>)>>)>>)

\* Nested literal result elements, and a value-of with an invalid
\* disable-output-escaping.
StyleLiteral ==
    WithDoctype(Stylesheet("xml", <<>>,
        <<Template("/", NULL,
            <<LE("a", <<LE("b", <<TX(<<120>>)>>), LE("c", <<>>),
                        XE("if", Tst("true()"), <<LE("d", <<TX(<<89>>)>>)>>),
                        XE("if", Tst("false()"), <<TX(<<90>>)>>)>>),
              TX(<<121>>),
              LE("e", <<LE("f", <<LE("g", <<>>)>>)>>),
              XE("value-of", [A0 EXCEPT !.select = ".", !.doe = "maybe"], <<>>)>>)>>),
        "pub", NULL)

\* apply-templates on the children of the root element, of every kind, and
\* then on the root element followed by its children.
StyleSelect ==
    Stylesheet("xml", ("r" :> "strip"),
        <<Template("/", NULL,
            <<XE("apply-templates", Sel("*/node()"), <<>>),
              XE("apply-templates", Sel("*|*/node()"), <<>>)>>)>>)

\* xsl:attribute at the top level of the template that matches the root:
\* the insertion point is the result document, still without children.
StyleTopAttribute ==
    Stylesheet("xml", <<>>,
        <<Template("/", NULL, <<XE("attribute", Nam("t"), <<TX(<<116>>)>>)>>)>>)

\* Literal result elements in namespaces: x is declared on the element a
\* itself, y on the xsl:stylesheet element only.
StyleNamespace ==
    Stylesheet("xml", <<>>,
        <<Template("/", NULL,
            <<LEns("a", Ns("x", "u"), <<Ns("x", "u")>>,
                <<LEns("b", Ns("x", "u"), <<>>, <<>>),
                  LEns("c", Ns("y", "v"), <<>>,
                       <<LEns("d", Ns("x", "u"), <<>>, <<>>)>>)>>)>>)>>)

\* apply-templates without select as the first instruction executed.
StyleFirstApply ==
    Stylesheet("xml", <<>>,
        <<Template("/", NULL, <<XE("apply-templates", A0, <<>>)>>)>>)

Styles ==
    {StyleEmpty, StyleSortNumber, StyleSortText, StyleSortPosition, StyleNested, StyleStrip,
     StyleStripAll, StyleAttribute, StyleBadMethod, StyleCall, StyleLiteral,
     StyleFirstApply, StyleSortBad, StyleSelect, StyleTopAttribute,
     StyleNamespace}

(***************************************************************************)
(* The pattern engine and the variable stack (other files of the library)  *)
(***************************************************************************)
Matches(s, n, match) ==
    CASE match = "/" -> s[n].type = "document"
      [] match = "*" -> s[n].type = "element"
      [] match = "text()" -> s[n].type = "text"
      [] match = NULL -> FALSE
      [] OTHER -> s[n].type = "element" /\ s[n].name = match

\* xsltGetTemplate: the index of the best template for node n, 0 if none.
xsltGetTemplate(st, s, n) ==
    LET hits == {t \in 1..Len(st.templates) : Matches(s, n, st.templates[t].match)}
    IN  IF hits = {} THEN 0 ELSE CHOOSE t \in hits : \A u \in hits : t <= u

\* xsltFindTemplate: the index of the template called name, 0 if none.
xsltFindTemplate(st, name) ==
    LET hits == {t \in 1..Len(st.templates) : st.templates[t].name = name}
    IN  IF hits = {} THEN 0 ELSE CHOOSE t \in hits : \A u \in hits : t <= u

\* template->content
Content(st, t) == PChildren(st, Ptr(t, <<>>))

xsltPushStack(c) == [c EXCEPT !.vars = Append(@, <<>>)]
xsltPopStack(c) == [c EXCEPT !.vars = Front(@)]
\* xsltParseStylesheetVariable / xsltParseStylesheetParam: declare the name
\* in the top scope.
xsltParseStylesheetParam(c, name) ==
    [c EXCEPT !.vars[Len(c.vars)] = Append(@, name)]

\* xsltEvalTemplateString: the text the body of an instruction produces; the
\* bodies of the model hold literal text only.
xsltEvalTemplateString(st, inst) ==
    LET ks == At(st, inst).kids
    IN  Concat([k \in 1..Len(ks) |-> ks[k].content])

(***************************************************************************)
(* State                                                                   *)
(***************************************************************************)
VARIABLES
    style,      \* the compiled stylesheet (never written)
    src,        \* the source document: sequence of node records
    res,        \* the result document: sequence of node records, <<>> if none
    ctxt,       \* the transform context
    lists,      \* the heap of XPath node sets
    stack,      \* the call stack below xsltApplyStylesheet
    status,     \* "idle", "running", "closing" or "crashed"
    runs,       \* number of calls of xsltApplyStylesheet so far
    retval,     \* what the last call returned: 1 the result document, 0 NULL
    history,    \* the result documents of the completed calls
    srcAtCall,  \* the source document when the current call started
    dispatched, \* number of calls of xsltProcessOneNode in the current call
    intSubset,  \* the name of the result document's internal subset, or NULL
    mem,        \* what the current call allocated and released
    who,        \* the transformation the variables above belong to
    parked      \* the other transformations of the process, by name

vars == <<style, src, res, ctxt, lists, stack, status, runs, retval, history,
          srcAtCall, dispatched, intSubset, mem, who, parked>>

\* xsltNewTransformContext: the context after memset 0.  contextSize and
\* proximityPosition live in the XPath context; while there is none they
\* hold the values xmlXPathNewContext will give them.
NewContext ==
    [alive |-> TRUE, node |-> 0, nodeList |-> 0, insert |-> 0, output |-> 0,
     type |-> "XML", xpathCtxt |-> FALSE, xnode |-> 0, contextSize |-> -1,
     proximityPosition |-> -1, vars |-> <<>>]

\* xsltFreeTransformContext
FreedContext == [NewContext EXCEPT !.alive = FALSE]

\* The XPath context is created by the first instruction that needs it.
EnsureXPath(c) == [c EXCEPT !.xpathCtxt = TRUE]

(***************************************************************************)
(* The result tree                                                         *)
(***************************************************************************)
\* copy->ns of a result node: the declaration (prefix, href) in the nsDef
\* of result node owner; NoBinding is NULL.
Binding(owner, d) == [owner |-> owner, prefix |-> d.prefix, href |-> d.href]
NoBinding == [owner |-> 0, prefix |-> NULL, href |-> NULL]

ResNode(kind, name, content) ==
    [kind |-> kind, name |-> name, content |-> content, parent |-> 0,
     attrs |-> <<>>, ns |-> NoBinding, nsDef |-> <<>>]

\* xmlAddChild(parent, node): node becomes the last child of parent.
xmlAddChild(r, parent, n) == Append(r, [n EXCEPT !.parent = parent])

\* The children of result node p, in order.
ResChildren(r, p) ==
    LET IsKid(k) == r[k].parent = p
    IN  SelectSeq([k \in 1..Len(r) |-> k], IsKid)

\* xmlSetProp(node, name, value)
xmlSetProp(r, n, name, value) ==
    LET Other(a) == a.name # name
    IN  [r EXCEPT ![n].attrs =
            Append(SelectSeq(@, Other), [name |-> name, value |-> value])]

RECURSIVE ResText(_, _)
\* The text content of result node n: its text and CDATA descendants in
\* document order.
ResText(r, n) ==
    IF r[n].kind \in {"text", "cdata"} THEN r[n].content
    ELSE IF r[n].kind \in {"document", "element"}
    THEN LET ch == ResChildren(r, n)
         IN  Concat([k \in 1..Len(ch) |-> ResText(r, ch[k])])
    ELSE <<>>

(***************************************************************************)
(* Frames                                                                  *)
(***************************************************************************)
\* A call of fn(ctxt, node, inst) about to execute its first statement.
\* entry and eres record the context and the result tree at the call.
Frame(fn, node, inst, c, r) ==
    [fn |-> fn, pc |-> "start", node |-> node, inst |-> inst,
     cur |-> NullPtr, scur |-> 0, insert |-> 0, copy |-> 0, oldInsert |-> 0,
     flag |-> 0, i |-> 0, list |-> 0, oldlist |-> 0, oldSize |-> 0,
     oldPos |-> 0, number |-> FALSE, descending |-> FALSE, select |-> NULL,
     results |-> <<>>, done |-> <<>>, entry |-> c, eres |-> r]

Top == stack[Len(stack)]
Running(fn, pc) ==
    status = "running" /\ stack # <<>> /\ Top.fn = fn /\ Top.pc = pc

\* Replace the top frame by f.
SetTop(f) == [stack EXCEPT ![Len(stack)] = f]
\* Replace the top frame by f and call g.
Call(f, g) == Append(SetTop(f), g)

\* What the current call allocated and released: transform contexts and
\* result documents, created and freed.
NoMem == [ctxtNew |-> 0, ctxtFree |-> 0, resNew |-> 0, resFree |-> 0]

Init ==
    /\ style \in Styles
    /\ src \in Docs
    /\ res = <<>>
    /\ ctxt = FreedContext
    /\ lists = <<>>
    /\ stack = <<>>
    /\ status = "idle"
    /\ runs = 0
    /\ retval = 0
    /\ history = <<>>
    /\ srcAtCall = src
    /\ dispatched = 0
    /\ intSubset = NULL
    /\ mem = NoMem
    /\ who = "A"
    /\ parked = <<>>

(***************************************************************************)
(* xsltApplyStylesheet                                                     *)
(***************************************************************************)
\* OutputType taking every unknown method for xml.
OutputType_DefaultsToXml(method) ==
    CASE method = "html" -> "HTML"
      [] method = "text" -> "TEXT"
      [] OTHER -> "XML"

OutputType(method) ==
    CASE method = NULL -> "XML"
      [] method = "xml" -> "XML"
      [] method = "html" -> "HTML"
      [] method = "text" -> "TEXT"
      [] OTHER -> "UNSUPPORTED"

\* xsltFreeTransformContext that releases nothing.
xsltFreeTransformContext_Leaks(m) == m

\* xsltFreeTransformContext(ctxt), as the allocator sees it.
xsltFreeTransformContext(m) == [m EXCEPT !.ctxtFree = @ + 1]

\* if (res != NULL) xmlFreeDoc(res), at the error label.
xmlFreeDoc(m, r) == IF r # <<>> THEN [m EXCEPT !.resFree = @ + 1] ELSE m

\* From the call to the call of xsltProcessOneNode on the document, or to
\* the error exit.  ctxtOk, allocOk: whether the context and the result
\* document could be allocated.
ApplyStylesheet ==
    /\ status = "idle" /\ runs < MaxRuns
    /\ runs' = runs + 1
    /\ srcAtCall' = src
    /\ dispatched' = 0
    /\ lists' = <<>>
    /\ intSubset' = NULL
    /\ \E ctxtOk, allocOk \in BOOLEAN :
        LET type == OutputType(style.method)
            c0 == [NewContext EXCEPT !.type = IF type = "UNSUPPORTED" THEN "XML" ELSE type]
            doc == <<ResNode(IF type = "HTML" THEN "html-document" ELSE "document",
                             "/", <<>>)>>
            c1 == [c0 EXCEPT !.output = 1, !.insert = 1, !.node = 1]
            m1 == [NoMem EXCEPT !.ctxtNew = 1]
        IN  IF ~ctxtOk
            THEN /\ res' = <<>>
                 /\ ctxt' = FreedContext
                 /\ retval' = 0
                 /\ history' = Append(history, <<>>)
                 /\ mem' = NoMem
                 /\ UNCHANGED <<stack, status>>
            ELSE IF type = "UNSUPPORTED" \/ ~allocOk
            THEN /\ res' = <<>>
                 /\ ctxt' = FreedContext
                 /\ retval' = 0
                 /\ history' = Append(history, <<>>)
                 /\ mem' = xsltFreeTransformContext(xmlFreeDoc(m1, <<>>))
                 /\ UNCHANGED <<stack, status>>
            ELSE /\ res' = doc
                 /\ ctxt' = c1
                 /\ stack' = <<Frame("xsltProcessOneNode", 1, NullPtr, c1, <<>>)>>
                 /\ status' = "running"
                 /\ mem' = [m1 EXCEPT !.resNew = 1]
                 /\ UNCHANGED <<retval, history>>
    /\ UNCHANGED <<style, parked, who, src>>

\* xmlDocGetRootElement: the first element child of the document, 0 if none.
xmlDocGetRootElement(r) ==
    LET es == {k \in 1..Len(r) : r[k].parent = 1 /\ r[k].kind = "element"}
    IN  IF es = {} THEN 0 ELSE CHOOSE k \in es : \A j \in es : k <= j

\* After xsltProcessOneNode returned (lines 1363-1370).  The condition
\* assigns XSLT_OUTPUT_XML to ctxt->type and tests the value assigned;
\* xmlIsZero: whether the enumeration of xsltInternals.h gives
\* XSLT_OUTPUT_XML the value 0.
ApplyStylesheetDoctype ==
    /\ status = "running" /\ stack = <<>>
    /\ status' = "closing"
    /\ ctxt' = [ctxt EXCEPT !.type = "XML"]
    /\ \E xmlIsZero \in BOOLEAN :
        LET root == xmlDocGetRootElement(res)
        IN  intSubset' =
                IF /\ ~xmlIsZero
                   /\ style.doctypePublic # NULL \/ style.doctypeSystem # NULL
                   /\ root # 0
                THEN res[root].name ELSE NULL
    /\ UNCHANGED <<style, parked, who, mem, src, res, lists, stack, runs, retval, history,
                   srcAtCall, dispatched>>

\* Free the node list and the context, return the result (lines 1371-1373).
ApplyStylesheetReturn ==
    /\ status = "closing"
    /\ status' = "idle"
    /\ ctxt' = FreedContext
    /\ mem' = xsltFreeTransformContext(mem)
    /\ retval' = 1
    /\ history' = Append(history, res)
    /\ UNCHANGED <<style, parked, who, intSubset, src, res, lists, stack, runs, srcAtCall,
                   dispatched>>

(***************************************************************************)
(* xsltProcessOneNode                                                      *)
(***************************************************************************)
ProcessOneNode ==
    /\ Running("xsltProcessOneNode", "start")
    /\ LET f == Top
           t == xsltGetTemplate(style, src, f.node)
           g == IF t = 0
                THEN Frame("xsltDefaultProcessOneNode", f.node, NullPtr, ctxt, <<>>)
                ELSE Frame("xsltApplyOneTemplate", f.node, Content(style, t), ctxt, <<>>)
       IN  stack' = Call([f EXCEPT !.pc = "exit"], g)
    /\ dispatched' = dispatched + 1
    /\ UNCHANGED <<style, parked, who, intSubset, mem, src, res, ctxt, lists, status, runs, retval, history,
                   srcAtCall>>

\* A function returns to its caller.
Return ==
    /\ status = "running" /\ stack # <<>> /\ Top.pc = "exit"
    /\ stack' = Front(stack)
    /\ UNCHANGED <<style, parked, who, intSubset, mem, src, res, ctxt, lists, status, runs, retval, history,
                   srcAtCall, dispatched>>

(***************************************************************************)
(* xsltDefaultProcessOneNode                                               *)
(***************************************************************************)
\* DefaultStripSpaces without the wildcard lookup.
DefaultStripSpaces_NoWildcard(st, s, n) ==
    IF xmlHashLookup(st.stripSpaces, s[s[n].parent].name) = "strip" THEN 1 ELSE 0

\* The strip decision of the default rule for a blank text child of parent:
\* the value of strip_spaces after lines 626-647.
DefaultStripSpaces(st, s, n) ==
    LET val == xmlHashLookup(st.stripSpaces, s[s[n].parent].name)
        star == xmlHashLookup(st.stripSpaces, "*")
    IN  IF val = "strip" THEN 1
        ELSE IF val = "preserve" THEN 0
        ELSE IF star = "strip" THEN 1 ELSE 0

\* DefaultDeletes treating a CDATA section like the other kinds.
DefaultDeletes_Cdata(type, stripped) ==
    IF type = "text" THEN stripped ELSE TRUE

\* Whether the child walk marks a child for deletion (lines 619-670): a
\* text node when it is to be stripped, a CDATA section never, a node of
\* any other kind always.
DefaultDeletes(type, stripped) ==
    IF type \in {"text", "cdata"} THEN stripped ELSE TRUE

\* The switch on the type of the node itself.
DefaultStart ==
    /\ Running("xsltDefaultProcessOneNode", "start")
    /\ LET f == Top
           type == src[f.node].type
       IN  IF type \in {"document", "element"}
           THEN /\ stack' = SetTop([f EXCEPT !.pc = "loop", !.flag = -1,
                                             !.scur = FirstChild(src, f.node)])
                /\ res' = res
           ELSE /\ stack' = SetTop([f EXCEPT !.pc = "exit"])
                /\ res' = IF type = "text"
                          THEN xmlAddChild(res, ctxt.insert,
                                           ResNode("text", "text", src[f.node].content))
                          ELSE res
    /\ UNCHANGED <<style, parked, who, intSubset, mem, src, ctxt, lists, status, runs, retval, history,
                   srcAtCall, dispatched>>

\* The child is an element or a document: dispatch it.
DefaultChildElement ==
    /\ Running("xsltDefaultProcessOneNode", "loop")
    /\ Top.scur # 0
    /\ src[Top.scur].type \in {"document", "element"}
    /\ stack' = Call([Top EXCEPT !.pc = "next"],
                     Frame("xsltProcessOneNode", Top.scur, NullPtr, ctxt, <<>>))
    /\ UNCHANGED <<style, parked, who, intSubset, mem, src, res, ctxt, lists, status, runs, retval, history,
                   srcAtCall, dispatched>>

\* After the dispatch of an element child: node = node->next.
DefaultNext ==
    /\ Running("xsltDefaultProcessOneNode", "next")
    /\ stack' = SetTop([Top EXCEPT !.pc = "loop",
                                   !.scur = NextSibling(src, Top.scur)])
    /\ UNCHANGED <<style, parked, who, intSubset, mem, src, res, ctxt, lists, status, runs, retval, history,
                   srcAtCall, dispatched>>

\* The child is a text node, a CDATA section or of another kind: copy it or
\* mark it for deletion, step to the next sibling, delete what was marked.
DefaultChildLeaf ==
    /\ Running("xsltDefaultProcessOneNode", "loop")
    /\ Top.scur # 0
    /\ src[Top.scur].type \notin {"document", "element"}
    /\ LET f == Top
           n == f.scur
           type == src[n].type
           check == /\ type = "text"
                    /\ xsltIsBlank(src[n].content)
                    /\ src[n].parent # 0
                    /\ style.stripSpaces # <<>>
           strip == IF check /\ f.flag = -1
                    THEN DefaultStripSpaces(style, src, n) ELSE f.flag
           delete == DefaultDeletes(type, check /\ strip = 1)
       IN  /\ stack' = SetTop([f EXCEPT !.flag = strip,
                                        !.scur = NextSibling(src, n)])
           /\ res' = IF delete THEN res
                     ELSE xmlAddChild(res, ctxt.insert,
                                      ResNode(type, type, src[n].content))
           /\ src' = IF delete THEN UnlinkAndFree(src, n) ELSE src
    /\ UNCHANGED <<style, parked, who, intSubset, mem, ctxt, lists, status, runs, retval, history,
                   srcAtCall, dispatched>>

\* No child is left.
DefaultEnd ==
    /\ Running("xsltDefaultProcessOneNode", "loop")
    /\ Top.scur = 0
    /\ stack' = SetTop([Top EXCEPT !.pc = "exit"])
    /\ UNCHANGED <<style, parked, who, intSubset, mem, src, res, ctxt, lists, status, runs, retval, history,
                   srcAtCall, dispatched>>

(***************************************************************************)
(* xsltApplyOneTemplate                                                    *)
(***************************************************************************)
\* The instructions xsltApplyOneTemplate hands to a handler with
\* ctxt->insert set to the local insertion point.
Handler(name) ==
    CASE name = "apply-templates" -> "xsltApplyTemplates"
      [] name = "value-of" -> "xsltValueOf"
      [] name = "if" -> "xsltIf"
      [] name = "for-each" -> "xsltForEach"
      [] name = "attribute" -> "xsltAttribute"
      [] name = "comment" -> "xsltComment"
      [] name = "processing-instruction" -> "xsltProcessingInstruction"
      [] OTHER -> NULL

RECURSIVE Unwind(_, _, _, _, _)
\* The do-while of lines 1067-1080: climb until a next sibling or the
\* parent of the body is found.  fault: insert->parent was read from NULL.
Unwind(st, r, cur, insert, listParent) ==
    LET c == PParent(cur)
        i == IF insert = 0 THEN 0 ELSE r[insert].parent
        fault == insert = 0
    IN  IF c = NullPtr \/ c = listParent
        THEN [cur |-> NullPtr, insert |-> i, fault |-> fault]
        ELSE IF PNext(st, c) # NullPtr
        THEN [cur |-> PNext(st, c), insert |-> i, fault |-> fault]
        ELSE IF fault THEN [cur |-> NullPtr, insert |-> i, fault |-> TRUE]
        ELSE Unwind(st, r, c, i, listParent)

\* Advance that descends without moving the insertion point to the copy.
Advance_KeepsInsert(st, r, f, skip) ==
    IF ~skip /\ PChildren(st, f.cur) # NullPtr
    THEN [cur |-> PChildren(st, f.cur), insert |-> f.insert, fault |-> FALSE]
    ELSE IF PNext(st, f.cur) # NullPtr
    THEN [cur |-> PNext(st, f.cur), insert |-> f.insert, fault |-> FALSE]
    ELSE Unwind(st, r, f.cur, f.insert, PParent(f.inst))

\* "Skip to next node, in document order" (lines 1050-1080); skip is the
\* jump to skip_children an XSLT instruction takes.
Advance(st, r, f, skip) ==
    IF ~skip /\ PChildren(st, f.cur) # NullPtr
    THEN [cur |-> PChildren(st, f.cur),
          insert |-> IF f.copy # 0 THEN f.copy ELSE f.insert, fault |-> FALSE]
    ELSE IF PNext(st, f.cur) # NullPtr
    THEN [cur |-> PNext(st, f.cur), insert |-> f.insert, fault |-> FALSE]
    ELSE Unwind(st, r, f.cur, f.insert, PParent(f.inst))

\* The frame and the status after Advance.
Advanced(st, r, f, skip) ==
    LET a == Advance(st, r, f, skip)
    IN  [f EXCEPT !.pc = "loop", !.cur = a.cur, !.insert = a.insert]
Faulted(st, r, f, skip) == Advance(st, r, f, skip).fault

\* ctxt->insert = insert, before an instruction handler is called.
SetInsert(c, f) == [c EXCEPT !.insert = f.insert]
\* RestoreInsert writing the local insertion point instead.
RestoreInsert_Local(c, f) == [c EXCEPT !.insert = f.insert]

\* ctxt->insert = oldInsert, after the handler returned.
RestoreInsert(c, f) == [c EXCEPT !.insert = f.oldInsert]

\* The lazy push of a variable scope (lines 993-996, 999-1002, 1005-1008).
OpenScope(c, f) == IF f.flag = 0 THEN xsltPushStack(c) ELSE c
\* CloseScope without the pop.
CloseScope_Forgets(c, f) == c

\* The pop at the end of the body (lines 1082-1084).
CloseScope(c, f) == IF f.flag # 0 THEN xsltPopStack(c) ELSE c

\* oldInsert = insert = ctxt->insert; cur = list.
TemplateStart ==
    /\ Running("xsltApplyOneTemplate", "start")
    /\ stack' = SetTop([Top EXCEPT !.pc = "loop", !.cur = Top.inst,
                                   !.insert = ctxt.insert,
                                   !.oldInsert = ctxt.insert])
    /\ UNCHANGED <<style, parked, who, intSubset, mem, src, res, ctxt, lists, status, runs, retval, history,
                   srcAtCall, dispatched>>

InBody ==
    /\ Running("xsltApplyOneTemplate", "loop")
    /\ Top.cur # NullPtr
    /\ Top.insert # 0

\* The loop is left: cur is NULL (the scope is popped) or there is no
\* insertion point (plain return).
TemplateEnd ==
    /\ Running("xsltApplyOneTemplate", "loop")
    /\ Top.cur = NullPtr \/ Top.insert = 0
    /\ ctxt' = IF Top.cur = NullPtr THEN CloseScope(ctxt, Top) ELSE ctxt
    /\ stack' = SetTop([Top EXCEPT !.pc = "exit"])
    /\ UNCHANGED <<style, parked, who, intSubset, mem, src, res, lists, status, runs, retval, history,
                   srcAtCall, dispatched>>

\* An instruction with a handler: ctxt->insert = insert; handler(...).
TemplateInstruction ==
    /\ InBody
    /\ IS_XSLT_ELEM(style, Top.cur)
    /\ Handler(At(style, Top.cur).name) # NULL
    /\ ctxt' = SetInsert(ctxt, Top)
    /\ stack' = Call([Top EXCEPT !.pc = "restore"],
                     Frame(Handler(At(style, Top.cur).name), Top.node, Top.cur,
                           ctxt', res))
    /\ UNCHANGED <<style, parked, who, intSubset, mem, src, res, lists, status, runs, retval, history,
                   srcAtCall, dispatched>>

\* ctxt->insert = oldInsert; goto skip_children.
TemplateRestore ==
    /\ Running("xsltApplyOneTemplate", "restore")
    /\ ctxt' = RestoreInsert(ctxt, Top)
    /\ stack' = SetTop(Advanced(style, res, Top, TRUE))
    /\ status' = IF Faulted(style, res, Top, TRUE) THEN "crashed" ELSE status
    /\ UNCHANGED <<style, parked, who, intSubset, mem, src, res, lists, runs, retval, history, srcAtCall,
                   dispatched>>

\* xsl:variable and xsl:param.
TemplateVariable ==
    /\ InBody
    /\ IS_XSLT_ELEM(style, Top.cur)
    /\ At(style, Top.cur).name \in {"variable", "param"}
    /\ ctxt' = xsltParseStylesheetParam(OpenScope(ctxt, Top),
                                        At(style, Top.cur).a.name)
    /\ stack' = SetTop(Advanced(style, res, [Top EXCEPT !.flag = 1], TRUE))
    /\ status' = IF Faulted(style, res, Top, TRUE) THEN "crashed" ELSE status
    /\ UNCHANGED <<style, parked, who, intSubset, mem, src, res, lists, runs, retval, history, srcAtCall,
                   dispatched>>

\* xsl:call-template: ctxt->insert is not set to the local insertion point.
TemplateCall ==
    /\ InBody
    /\ IS_XSLT_ELEM(style, Top.cur)
    /\ At(style, Top.cur).name = "call-template"
    /\ ctxt' = OpenScope(ctxt, Top)
    /\ stack' = Call([Top EXCEPT !.pc = "called", !.flag = 1],
                     Frame("xsltCallTemplate", Top.node, Top.cur, ctxt', res))
    /\ UNCHANGED <<style, parked, who, intSubset, mem, src, res, lists, status, runs, retval, history,
                   srcAtCall, dispatched>>

\* After xsltCallTemplate returned, and for an XSLT element without a
\* handler (the TODO branch): goto skip_children.
TemplateSkip ==
    /\ \/ Running("xsltApplyOneTemplate", "called")
       \/ /\ InBody
          /\ IS_XSLT_ELEM(style, Top.cur)
          /\ Handler(At(style, Top.cur).name) = NULL
          /\ At(style, Top.cur).name \notin {"variable", "param", "call-template"}
    /\ stack' = SetTop(Advanced(style, res, Top, TRUE))
    /\ status' = IF Faulted(style, res, Top, TRUE) THEN "crashed" ELSE status
    /\ UNCHANGED <<style, parked, who, intSubset, mem, src, res, ctxt, lists, runs, retval, history,
                   srcAtCall, dispatched>>

RECURSIVE xmlSearchNsByHref(_, _, _)
\* xmlSearchNsByHref(doc, node, href): the first declaration of href on node
\* or, going up, on an ancestor element; NoBinding if there is none.
xmlSearchNsByHref(r, node, href) ==
    IF node = 0 \/ r[node].kind # "element" THEN NoBinding
    ELSE LET hits == {k \in 1..Len(r[node].nsDef) : r[node].nsDef[k].href = href}
         IN  IF hits # {}
             THEN Binding(node, r[node].nsDef[CHOOSE k \in hits : \A j \in hits : k <= j])
             ELSE xmlSearchNsByHref(r, r[node].parent, href)

\* xmlNewNs(node, href, prefix): one more declaration on node.
xmlNewNs(r, node, href, prefix) ==
    [r EXCEPT ![node].nsDef = Append(@, Ns(prefix, href))]

\* xsltCopyNode: xmlCopyNode(node, 0), which copies neither ns nor nsDef,
\* appended as last child of insert; then nsDef is copied and ns is looked
\* for on the parent and in scope.  The declaration xmlNewNs makes when
\* none is found is not assigned to copy->ns.
xsltCopyNode(r, n, insert) ==
    LET copy == Len(r) + 1
        r1 == xmlAddChild(r, insert, [ResNode("element", n.name, <<>>)
                                         EXCEPT !.nsDef = n.nsDef])
        ns == xmlSearchNsByHref(r1, copy, n.ns.href)
    IN  IF n.ns = NoNs THEN r1
        ELSE IF /\ r[insert].kind = "element"
                /\ r[insert].ns # NoBinding
                /\ r[insert].ns.href = n.ns.href
        THEN [r1 EXCEPT ![copy].ns = r[insert].ns]
        ELSE IF ns # NoBinding
        THEN [r1 EXCEPT ![copy].ns = ns]
        ELSE xmlNewNs(r1, copy, n.ns.href, n.ns.prefix)

\* A node that is no XSLT element: text and elements are copied under the
\* local insertion point, other kinds are passed over; then the walk goes on
\* with the children, the next sibling or the parent's.
TemplateLiteral ==
    /\ InBody
    /\ ~IS_XSLT_ELEM(style, Top.cur)
    /\ LET n == At(style, Top.cur)
           r == CASE n.kind = "text" ->
                        xmlAddChild(res, Top.insert, ResNode("text", "text", n.content))
                  [] n.kind = "element" -> xsltCopyNode(res, n, Top.insert)
                  [] OTHER -> res
           f == IF r # res THEN [Top EXCEPT !.copy = Len(r)] ELSE Top
       IN  /\ res' = r
           /\ stack' = SetTop(Advanced(style, r, f, FALSE))
           /\ status' = IF Faulted(style, r, f, FALSE) THEN "crashed" ELSE status
    /\ UNCHANGED <<style, parked, who, intSubset, mem, src, ctxt, lists, runs, retval, history, srcAtCall,
                   dispatched>>

(***************************************************************************)
(* xsltValueOf, xsltAttribute, xsltComment, xsltProcessingInstruction      *)
(***************************************************************************)
\* disable-output-escaping (lines 430-445): yes sets disableEscaping, which
\* nothing reads; any other value than yes and no is reported, and the
\* instruction goes on.
ValueOf ==
    /\ Running("xsltValueOf", "start")
    /\ LET f == Top
           disableEscaping == At(style, f.inst).a.doe = "yes"
           select == At(style, f.inst).a.select
           c == [EnsureXPath(ctxt) EXCEPT !.xnode = f.node]
           o == XPathEval(select, src, f.node, c.contextSize, c.proximityPosition)
       IN  IF select = NULL
           THEN UNCHANGED <<ctxt, res>>
           ELSE /\ ctxt' = c
                /\ res' = xmlAddChild(res, ctxt.insert,
                                      ResNode("text", "text", XPathString(src, o)))
    /\ stack' = SetTop([Top EXCEPT !.pc = "exit"])
    /\ UNCHANGED <<style, parked, who, intSubset, mem, src, lists, status, runs, retval, history, srcAtCall,
                   dispatched>>

\* AttributeAllowed without the test for children.
AttributeAllowed_Always(r, insert) == insert # 0

\* The guard of lines 345-351: there is an insertion point and it has no
\* children yet.
AttributeAllowed(r, insert) == insert # 0 /\ ResChildren(r, insert) = <<>>

\* The kind of the insertion point is not tested: xmlSetProp (lines 383-392)
\* is called on whatever node ctxt->insert is.  On a node that is no
\* element, the fields of an element it reads and writes are not there: the
\* library refuses the node, or links the attribute into it, or the call
\* crashes.
Attribute ==
    /\ Running("xsltAttribute", "start")
    /\ LET a == At(style, Top.inst).a
           set == xmlSetProp(res, ctxt.insert, a.name,
                             xsltEvalTemplateString(style, Top.inst))
       IN  IF ~(/\ AttributeAllowed(res, ctxt.insert)
                /\ a.namespace = NULL
                /\ a.name # NULL
                /\ a.name # "xmlns")
           THEN /\ res' = res
                /\ status' = status
                /\ stack' = SetTop([Top EXCEPT !.pc = "exit"])
           ELSE IF res[ctxt.insert].kind = "element"
           THEN /\ res' = set
                /\ status' = status
                /\ stack' = SetTop([Top EXCEPT !.pc = "exit"])
           ELSE \E outcome \in {"refused", "linked", "crash"} :
                    /\ res' = IF outcome = "linked" THEN set ELSE res
                    /\ status' = IF outcome = "crash" THEN "crashed" ELSE status
                    /\ stack' = IF outcome = "crash" THEN stack
                                ELSE SetTop([Top EXCEPT !.pc = "exit"])
    /\ UNCHANGED <<style, parked, who, intSubset, mem, src, ctxt, lists, runs, retval, history,
                   srcAtCall, dispatched>>

Comment ==
    /\ Running("xsltComment", "start")
    /\ res' = xmlAddChild(res, ctxt.insert,
                          ResNode("comment", "comment",
                                  xsltEvalTemplateString(style, Top.inst)))
    /\ stack' = SetTop([Top EXCEPT !.pc = "exit"])
    /\ UNCHANGED <<style, parked, who, intSubset, mem, src, ctxt, lists, status, runs, retval, history,
                   srcAtCall, dispatched>>

ProcessingInstruction ==
    /\ Running("xsltProcessingInstruction", "start")
    /\ LET name == At(style, Top.inst).a.name
       IN  res' = IF ctxt.insert # 0 /\ name # NULL
                  THEN xmlAddChild(res, ctxt.insert,
                                   ResNode("pi", name,
                                           xsltEvalTemplateString(style, Top.inst)))
                  ELSE res
    /\ stack' = SetTop([Top EXCEPT !.pc = "exit"])
    /\ UNCHANGED <<style, parked, who, intSubset, mem, src, ctxt, lists, status, runs, retval, history,
                   srcAtCall, dispatched>>

(***************************************************************************)
(* xsltSort                                                                *)
(***************************************************************************)
\* xsltSortFunction (xsltutils.c): the list sorted by the parallel keys, in
\* a stable way.  A key is [str, num]; num is compared when number is set.
KeyBefore(a, b, descending, number) ==
    LET less(x, y) == IF number THEN x.num < y.num ELSE StrLess(x.str, y.str)
    IN  IF descending THEN less(b, a) ELSE less(a, b)

RECURSIVE InsertStable(_, _, _, _, _)
\* order: indices already sorted; k goes before the first index whose key
\* comes strictly after k's.
InsertStable(order, k, results, descending, number) ==
    IF order = <<>> THEN <<k>>
    ELSE IF KeyBefore(results[k], results[Head(order)], descending, number)
    THEN <<k>> \o order
    ELSE <<Head(order)>> \o
         InsertStable(Tail(order), k, results, descending, number)

RECURSIVE SortedOrder(_, _, _, _)
SortedOrder(n, results, descending, number) ==
    IF n = 0 THEN <<>>
    ELSE InsertStable(SortedOrder(n - 1, results, descending, number), n,
                      results, descending, number)

xsltSortFunction(list, results, descending, number) ==
    LET order == SortedOrder(Len(list), results, descending, number)
    IN  [k \in 1..Len(list) |-> list[order[k]]]

\* SortKey without the conversion to a number.
SortKey_NoNumber(select, s, n, c, number) ==
    [str |-> XPathString(s, XPathEval(select, s, n, c.contextSize,
                                      c.proximityPosition)),
     num |-> 0]

\* The key of one node (lines 191-229): the select expression evaluated on
\* the node, made a string, and then a number when data-type is number.
SortKey(select, s, n, c, number) ==
    LET str == XPathString(s, XPathEval(select, s, n, c.contextSize,
                                        c.proximityPosition))
    IN  IF number THEN [str |-> <<>>, num |-> StringToNumber(str)]
        ELSE [str |-> str, num |-> 0]

\* ctxt->node = list->nodeTab[i]; proximityPosition = i + 1 (0-based i).
SortEnter(c, list, i) ==
    [c EXCEPT !.node = list[i + 1], !.proximityPosition = i + 1]

\* SortSupported taking every value.
SortSupported_Any(a) == TRUE

\* data-type is absent, text or number and order is absent, ascending or
\* descending (lines 139-165); otherwise goto error.
SortSupported(a) ==
    /\ a.dtype \in {NULL, "text", "number"}
    /\ a.order \in {NULL, "ascending", "descending"}

\* The checks before the loop (lines 133-187).
SortStart ==
    /\ Running("xsltSort", "start")
    /\ LET f == Top
           a == At(style, f.inst).a
           list == ctxt.nodeList
           select == IF a.select # NULL THEN a.select
                     ELSE xsltEvalTemplateString(style, f.inst)
           ok == /\ list # 0
                 /\ Len(lists[list]) > 1
                 /\ SortSupported(a)
       IN  stack' = SetTop(IF ok
                           THEN [f EXCEPT !.pc = "loop", !.list = list,
                                          !.number = (a.dtype = "number"),
                                          !.descending = (a.order = "descending"),
                                          !.select = select,
                                          !.done = lists[list]]
                           ELSE [f EXCEPT !.pc = "exit"])
    /\ UNCHANGED <<style, parked, who, intSubset, mem, src, res, ctxt, lists, status, runs, retval, history,
                   srcAtCall, dispatched>>

\* One turn of the loop that computes the keys.
SortLoop ==
    /\ Running("xsltSort", "loop")
    /\ Top.i < Len(lists[Top.list])
    /\ LET f == Top
           c == SortEnter(ctxt, lists[f.list], f.i)
       IN  /\ ctxt' = c
           /\ stack' = SetTop([f EXCEPT !.i = f.i + 1, !.node = c.node,
                                  !.results = Append(f.results,
                                      SortKey(f.select, src, c.node, c, f.number))])
    /\ UNCHANGED <<style, parked, who, intSubset, mem, src, res, lists, status, runs, retval, history,
                   srcAtCall, dispatched>>

\* xsltSortFunction(list, results, descending, number).
SortEnd ==
    /\ Running("xsltSort", "loop")
    /\ Top.i >= Len(lists[Top.list])
    /\ lists' = [lists EXCEPT ![Top.list] =
                    xsltSortFunction(@, Top.results, Top.descending, Top.number)]
    /\ stack' = SetTop([Top EXCEPT !.pc = "exit", !.flag = 1])
    /\ UNCHANGED <<style, parked, who, intSubset, mem, src, res, ctxt, status, runs, retval, history,
                   srcAtCall, dispatched>>

(***************************************************************************)
(* xsltApplyTemplates and xsltForEach                                      *)
(***************************************************************************)
\* The strip decision of xsltApplyTemplates for a blank text child (lines
\* 843-856).
ApplyTemplatesStrips(st, s, n) ==
    /\ xsltIsBlank(s[n].content)
    /\ s[n].parent # 0
    /\ st.stripSpaces # <<>>
    /\ xmlHashLookup(st.stripSpaces, s[s[n].parent].name) = "strip"

\* Whether the child loop of xsltApplyTemplates deletes child n.
ApplyTemplatesDeletes(st, s, n) ==
    CASE s[n].type = "text" -> ApplyTemplatesStrips(st, s, n)
      [] s[n].type \in {"document", "element", "cdata"} -> FALSE
      [] OTHER -> TRUE

RECURSIVE FreeAll(_, _)
FreeAll(s, ns) ==
    IF ns = <<>> THEN s ELSE FreeAll(UnlinkAndFree(s, Head(ns)), Tail(ns))

\* oldlist = ctxt->nodeList; ... ; contextSize = list->nodeNr (lines 890-894).
SaveIteration(f, c, list, size) ==
    [f EXCEPT !.pc = "sorts", !.list = list, !.oldlist = c.nodeList,
              !.oldSize = c.contextSize, !.oldPos = c.proximityPosition]
BeginIteration(c, list, size) ==
    [c EXCEPT !.nodeList = list, !.contextSize = size]

\* EnterIteration with the 0-based index as proximity position.
EnterIteration_ZeroBased(c, list, i) ==
    [c EXCEPT !.node = list[i + 1], !.proximityPosition = i]

\* ctxt->node = list->nodeTab[i]; proximityPosition = i + 1 (0-based i).
EnterIteration(c, list, i) ==
    [c EXCEPT !.node = list[i + 1], !.proximityPosition = i + 1]

\* RestoreIteration without the last assignment.
RestoreIteration_KeepsPosition(c, f) ==
    [c EXCEPT !.nodeList = f.oldlist, !.contextSize = f.oldSize]

\* The three assignments after the loop (lines 910-912 and 1258-1260).
RestoreIteration(c, f) ==
    [c EXCEPT !.nodeList = f.oldlist, !.contextSize = f.oldSize,
              !.proximityPosition = f.oldPos]

IsSort(st, ptr) == IS_XSLT_ELEM(st, ptr) /\ IS_XSLT_NAME(st, ptr, "sort")

\* The frame is in the loop over the list, all xsl:sort children consumed.
Iterating(fn) ==
    \/ Running(fn, "loop")
    \/ Running(fn, "sorts") /\ ~IsSort(style, Top.cur)

\* From the entry to the first xsl:sort (lines 786-899).
ApplyTemplatesStart ==
    /\ Running("xsltApplyTemplates", "start")
    /\ LET f == Top
           select == At(style, f.inst).a.select
           c == IF select # NULL
                THEN [EnsureXPath(ctxt) EXCEPT !.xnode = f.node] ELSE ctxt
           o == XPathEval(select, src, f.node, c.contextSize, c.proximityPosition)
           kids == src[f.node].children
           Deleted(n) == ApplyTemplatesDeletes(style, src, n)
           Kept(n) == ~Deleted(n)
           nodes == IF select # NULL THEN o.nodes ELSE SelectSeq(kids, Kept)
           s == IF select # NULL THEN src ELSE FreeAll(src, SelectSeq(kids, Deleted))
           list == Len(lists) + 1
       IN  IF select # NULL /\ o.type # "nodeset"
           THEN /\ ctxt' = c
                /\ stack' = SetTop([f EXCEPT !.pc = "exit"])
                /\ UNCHANGED <<src, lists, status>>
           ELSE /\ src' = s
                /\ lists' = Append(lists, nodes)
                /\ IF c.xpathCtxt
                   THEN /\ ctxt' = BeginIteration(c, list, Len(nodes))
                        /\ stack' = SetTop([SaveIteration(f, c, list, Len(nodes))
                                               EXCEPT !.cur = PChildren(style, f.inst)])
                        /\ status' = status
                   ELSE /\ status' = "crashed"
                        /\ UNCHANGED <<ctxt, stack>>
    /\ UNCHANGED <<style, parked, who, intSubset, mem, res, runs, retval, history, srcAtCall, dispatched>>

ApplyTemplatesSort ==
    /\ Running("xsltApplyTemplates", "sorts")
    /\ IsSort(style, Top.cur)
    /\ stack' = Call([Top EXCEPT !.cur = PNext(style, Top.cur)],
                     Frame("xsltSort", Top.node, Top.cur, ctxt, <<>>))
    /\ UNCHANGED <<style, parked, who, intSubset, mem, src, res, ctxt, lists, status, runs, retval, history,
                   srcAtCall, dispatched>>

\* One turn of the loop (lines 905-909).  A member of the list that was
\* freed since the list was built is read through a dangling pointer: the
\* call crashes, or finds the node as it was when it was unlinked.
ApplyTemplatesLoop ==
    /\ Iterating("xsltApplyTemplates")
    /\ Top.i < Len(lists[Top.list])
    /\ LET f == Top
           list == lists[f.list]
       IN  /\ ctxt' = EnterIteration(ctxt, list, f.i)
           /\ \E crash \in {FALSE, src[list[f.i + 1]].freed} :
                IF crash
                THEN /\ status' = "crashed"
                     /\ stack' = stack
                ELSE /\ status' = status
                     /\ stack' = Call([f EXCEPT !.pc = "loop", !.i = f.i + 1,
                                                !.done = Append(f.done, list[f.i + 1])],
                                      Frame("xsltProcessOneNode", list[f.i + 1], NullPtr,
                                            ctxt', <<>>))
    /\ UNCHANGED <<style, parked, who, intSubset, mem, src, res, lists, runs, retval, history,
                   srcAtCall, dispatched>>

ApplyTemplatesEnd ==
    /\ Iterating("xsltApplyTemplates")
    /\ Top.i >= Len(lists[Top.list])
    /\ ctxt' = RestoreIteration(ctxt, Top)
    /\ stack' = SetTop([Top EXCEPT !.pc = "exit", !.flag = 1])
    /\ UNCHANGED <<style, parked, who, intSubset, mem, src, res, lists, status, runs, retval, history,
                   srcAtCall, dispatched>>

\* From the entry to the first xsl:sort (lines 1186-1247).
ForEachStart ==
    /\ Running("xsltForEach", "start")
    /\ LET f == Top
           select == At(style, f.inst).a.select
           c == [EnsureXPath(ctxt) EXCEPT !.xnode = f.node]
           o == XPathEval(select, src, f.node, c.contextSize, c.proximityPosition)
           list == Len(lists) + 1
       IN  IF select = NULL
           THEN /\ stack' = SetTop([f EXCEPT !.pc = "exit"])
                /\ UNCHANGED <<ctxt, lists>>
           ELSE IF o.type # "nodeset"
           THEN /\ ctxt' = c
                /\ stack' = SetTop([f EXCEPT !.pc = "exit"])
                /\ UNCHANGED lists
           ELSE /\ lists' = Append(lists, o.nodes)
                /\ ctxt' = BeginIteration(c, list, Len(o.nodes))
                /\ stack' = SetTop([SaveIteration(f, c, list, Len(o.nodes))
                                       EXCEPT !.cur = PChildren(style, f.inst)])
    /\ UNCHANGED <<style, parked, who, intSubset, mem, src, res, status, runs, retval, history, srcAtCall,
                   dispatched>>

ForEachSort ==
    /\ Running("xsltForEach", "sorts")
    /\ IsSort(style, Top.cur)
    /\ stack' = Call([Top EXCEPT !.cur = PNext(style, Top.cur)],
                     Frame("xsltSort", Top.node, Top.cur, ctxt, <<>>))
    /\ UNCHANGED <<style, parked, who, intSubset, mem, src, res, ctxt, lists, status, runs, retval, history,
                   srcAtCall, dispatched>>

ForEachLoop ==
    /\ Iterating("xsltForEach")
    /\ Top.i < Len(lists[Top.list])
    /\ LET f == Top
           list == lists[f.list]
       IN  /\ ctxt' = EnterIteration(ctxt, list, f.i)
           /\ stack' = Call([f EXCEPT !.pc = "loop", !.i = f.i + 1,
                                      !.done = Append(f.done, list[f.i + 1])],
                            Frame("xsltApplyOneTemplate", list[f.i + 1], f.cur,
                                  ctxt', <<>>))
    /\ UNCHANGED <<style, parked, who, intSubset, mem, src, res, lists, status, runs, retval, history,
                   srcAtCall, dispatched>>

ForEachEnd ==
    /\ Iterating("xsltForEach")
    /\ Top.i >= Len(lists[Top.list])
    /\ ctxt' = RestoreIteration(ctxt, Top)
    /\ stack' = SetTop([Top EXCEPT !.pc = "exit", !.flag = 1])
    /\ UNCHANGED <<style, parked, who, intSubset, mem, src, res, lists, status, runs, retval, history,
                   srcAtCall, dispatched>>

(***************************************************************************)
(* xsltIf and xsltCallTemplate                                             *)
(***************************************************************************)
If ==
    /\ Running("xsltIf", "start")
    /\ LET f == Top
           test == At(style, f.inst).a.test
           c == [EnsureXPath(ctxt) EXCEPT !.xnode = f.node]
           o == XPathEval(test, src, f.node, c.contextSize, c.proximityPosition)
       IN  IF test = NULL
           THEN /\ stack' = SetTop([f EXCEPT !.pc = "exit"])
                /\ ctxt' = ctxt
           ELSE /\ ctxt' = c
                /\ stack' = IF XPathBoolean(o)
                            THEN Call([f EXCEPT !.pc = "exit", !.flag = 1],
                                      Frame("xsltApplyOneTemplate", c.node,
                                            PChildren(style, f.inst), c, <<>>))
                            ELSE SetTop([f EXCEPT !.pc = "exit"])
    /\ UNCHANGED <<style, parked, who, intSubset, mem, src, res, lists, status, runs, retval, history,
                   srcAtCall, dispatched>>

\* The names of the xsl:with-param children of a call-template.
WithParams(st, inst) ==
    LET ks == At(st, inst).kids
        IsParam(k) == k.kind = "xslt" /\ k.name = "with-param"
        ps == SelectSeq(ks, IsParam)
    IN  [k \in 1..Len(ps) |-> ps[k].a.name]

RECURSIVE DeclareAll(_, _)
DeclareAll(c, names) ==
    IF names = <<>> THEN c
    ELSE DeclareAll(xsltParseStylesheetParam(c, Head(names)), Tail(names))

\* PushParams opening the scope before the loop.
PushParams_Eager(c, names) == DeclareAll(xsltPushStack(c), names)

\* The loop over the children (lines 735-753): the scope is pushed on the
\* first with-param.
PushParams(c, names) ==
    IF names = <<>> THEN c ELSE DeclareAll(xsltPushStack(c), names)

\* The pop at the error label (lines 757-758).
PopParams(c, f) == IF f.flag = 1 THEN xsltPopStack(c) ELSE c

\* From the entry to the call of xsltApplyOneTemplate.  When the template
\* is not found the error message reads cur->name from the uninitialized
\* cur: the call crashes or goes on to the error label.
CallTemplateStart ==
    /\ Running("xsltCallTemplate", "start")
    /\ LET f == Top
           name == At(style, f.inst).a.name
           t == xsltFindTemplate(style, name)
           names == WithParams(style, f.inst)
       IN  IF ctxt.insert = 0 \/ name = NULL
           THEN /\ stack' = SetTop([f EXCEPT !.pc = "exit"])
                /\ UNCHANGED <<ctxt, status>>
           ELSE IF t = 0
           THEN \E crash \in BOOLEAN :
                    /\ status' = IF crash THEN "crashed" ELSE status
                    /\ stack' = IF crash THEN stack
                                ELSE SetTop([f EXCEPT !.pc = "exit"])
                    /\ ctxt' = ctxt
           ELSE /\ ctxt' = PushParams(ctxt, names)
                /\ stack' = Call([f EXCEPT !.pc = "after",
                                           !.flag = IF names = <<>> THEN 0 ELSE 1],
                                 Frame("xsltApplyOneTemplate", f.node,
                                       Content(style, t), ctxt', <<>>))
                /\ status' = status
    /\ UNCHANGED <<style, parked, who, intSubset, mem, src, res, lists, runs, retval, history, srcAtCall,
                   dispatched>>

CallTemplateEnd ==
    /\ Running("xsltCallTemplate", "after")
    /\ ctxt' = PopParams(ctxt, Top)
    /\ stack' = SetTop([Top EXCEPT !.pc = "exit"])
    /\ UNCHANGED <<style, parked, who, intSubset, mem, src, res, lists, status, runs, retval, history,
                   srcAtCall, dispatched>>

Next ==
    \/ ApplyStylesheet
    \/ ApplyStylesheetDoctype
    \/ ApplyStylesheetReturn
    \/ ProcessOneNode
    \/ Return
    \/ DefaultStart
    \/ DefaultChildElement
    \/ DefaultNext
    \/ DefaultChildLeaf
    \/ DefaultEnd
    \/ TemplateStart
    \/ TemplateEnd
    \/ TemplateInstruction
    \/ TemplateRestore
    \/ TemplateVariable
    \/ TemplateCall
    \/ TemplateSkip
    \/ TemplateLiteral
    \/ ValueOf
    \/ Attribute
    \/ Comment
    \/ ProcessingInstruction
    \/ SortStart
    \/ SortLoop
    \/ SortEnd
    \/ ApplyTemplatesStart
    \/ ApplyTemplatesSort
    \/ ApplyTemplatesLoop
    \/ ApplyTemplatesEnd
    \/ ForEachStart
    \/ ForEachSort
    \/ ForEachLoop
    \/ ForEachEnd
    \/ If
    \/ CallTemplateStart
    \/ CallTemplateEnd

Spec == Init /\ [][Next]_vars

(***************************************************************************)
(* Two transformations of one process                                      *)
(*                                                                         *)
(* Every function of transform.c reaches its state through its arguments:  *)
(* the context, the nodes of the source document and of the instruction.   *)
(* xsltApplyStylesheet allocates the context and the result document of    *)
(* its call; the file has no static variable.  A second transformation of  *)
(* the process is therefore a second copy of every variable but style.     *)
(* The transformation named who is in the variables; the others are        *)
(* parked.  R transforms a copy of the document of A and runs to its end   *)
(* before A and B start; then A and B take their steps in any order.       *)
(***************************************************************************)
\* What one call of xsltApplyStylesheet owns: its arguments but the
\* stylesheet, its locals, and what is reachable from them.
Private ==
    [src |-> src, res |-> res, ctxt |-> ctxt, lists |-> lists, stack |-> stack,
     status |-> status, runs |-> runs, retval |-> retval, history |-> history,
     srcAtCall |-> srcAtCall, dispatched |-> dispatched, intSubset |-> intSubset,
     mem |-> mem]

\* A transformation about to call xsltApplyStylesheet(style, doc), the one
\* call it makes.
Idle(doc) ==
    [src |-> doc, res |-> <<>>, ctxt |-> FreedContext, lists |-> <<>>,
     stack |-> <<>>, status |-> "idle", runs |-> MaxRuns - 1, retval |-> 0,
     history |-> <<>>, srcAtCall |-> doc, dispatched |-> 0, intSubset |-> NULL,
     mem |-> NoMem]

\* The state of transformation x.
Of(x) == IF who = x THEN Private ELSE parked[x]

\* The call of the transformation has returned.
Finished(p) == p.status = "idle" /\ p.runs = MaxRuns

\* The documents of A (and of R), and the document of B.
ParDocs == {MakeDoc(<<"i10", "i2">>), MakeDoc(<<"blank", "comment">>)}

OtherDoc == MakeDoc(<<"i2", "cdata">>)

InitPar ==
    /\ style \in Styles
    /\ \E docA \in ParDocs, docB \in {OtherDoc} :
        /\ src = docA
        /\ srcAtCall = docA
        /\ parked = [x \in {"A", "B"} |-> Idle(IF x = "A" THEN docA ELSE docB)]
    /\ who = "R"
    /\ res = <<>>
    /\ ctxt = FreedContext
    /\ lists = <<>>
    /\ stack = <<>>
    /\ status = "idle"
    /\ runs = MaxRuns - 1
    /\ retval = 0
    /\ history = <<>>
    /\ dispatched = 0
    /\ intSubset = NULL
    /\ mem = NoMem

\* Switch for contexts that share one XPath context: the context size and
\* the proximity position are those the last step left.
Switch_SharedXPathContext ==
    /\ status # "crashed"
    /\ who = "R" => Finished(Private)
    /\ \E p \in DOMAIN parked :
        /\ ~Finished(parked[p])
        /\ who' = p
        /\ parked' = [x \in (DOMAIN parked \ {p}) \cup {who} |->
                          IF x = who THEN Private ELSE parked[x]]
        /\ src' = parked[p].src
        /\ res' = parked[p].res
        /\ ctxt' = [parked[p].ctxt EXCEPT
                       !.contextSize = ctxt.contextSize,
                       !.proximityPosition = ctxt.proximityPosition]
        /\ lists' = parked[p].lists
        /\ stack' = parked[p].stack
        /\ status' = parked[p].status
        /\ runs' = parked[p].runs
        /\ retval' = parked[p].retval
        /\ history' = parked[p].history
        /\ srcAtCall' = parked[p].srcAtCall
        /\ dispatched' = parked[p].dispatched
        /\ intSubset' = parked[p].intSubset
        /\ mem' = parked[p].mem
    /\ UNCHANGED style

\* The processor leaves the running transformation for p.  A crash ends
\* the process.
Switch ==
    /\ status # "crashed"
    /\ who = "R" => Finished(Private)
    /\ \E p \in DOMAIN parked :
        /\ ~Finished(parked[p])
        /\ who' = p
        /\ parked' = [x \in (DOMAIN parked \ {p}) \cup {who} |->
                          IF x = who THEN Private ELSE parked[x]]
        /\ src' = parked[p].src
        /\ res' = parked[p].res
        /\ ctxt' = parked[p].ctxt
        /\ lists' = parked[p].lists
        /\ stack' = parked[p].stack
        /\ status' = parked[p].status
        /\ runs' = parked[p].runs
        /\ retval' = parked[p].retval
        /\ history' = parked[p].history
        /\ srcAtCall' = parked[p].srcAtCall
        /\ dispatched' = parked[p].dispatched
        /\ intSubset' = parked[p].intSubset
        /\ mem' = parked[p].mem
    /\ UNCHANGED style

NextPar == Next \/ Switch

SpecPar == InitPar /\ [][NextPar]_vars

(***************************************************************************)
(* Properties                                                              *)
(***************************************************************************)
Caller == stack[Len(stack) - 1]

\* The function on top of the stack is one of fns and is about to return.
AtExit(fns) ==
    status = "running" /\ stack # <<>> /\ Top.fn \in fns /\ Top.pc = "exit"

\* C1: when xsltApplyTemplates or xsltForEach returns, by the normal exit or
\* by the error exits, the context's node list, context size and proximity
\* position are the ones it was entered with.
C1_IterationRestoresNodeList ==
    AtExit({"xsltApplyTemplates", "xsltForEach"}) =>
        /\ ctxt.nodeList = Top.entry.nodeList
        /\ ctxt.contextSize = Top.entry.contextSize
        /\ ctxt.proximityPosition = Top.entry.proximityPosition

\* A for-each nested in another iteration returns after its own loop ran.
C1_Witness ==
    /\ AtExit({"xsltForEach"})
    /\ Top.flag = 1
    /\ Len(lists[Top.list]) >= 1
    /\ Top.entry.nodeList # 0
    /\ Top.entry.proximityPosition >= 2

\* C2: when xsltApplyTemplates, xsltForEach or xsltSort returns after it
\* went over a non-empty node list, the context's current node is the one
\* the instruction was entered with.
C2_CurrentNodeRestored ==
    (/\ AtExit({"xsltApplyTemplates", "xsltForEach", "xsltSort"})
     /\ Top.flag = 1
     /\ Len(lists[Top.list]) > 0)
    => ctxt.node = Top.entry.node

\* C3: when xsltApplyOneTemplate returns, the context's insertion point is
\* the one it was called with.
C3_InsertRestored ==
    AtExit({"xsltApplyOneTemplate"}) => ctxt.insert = Top.entry.insert

\* A body entered under a literal element returns after it copied a nested
\* literal element with content of its own.
C3_Witness ==
    /\ AtExit({"xsltApplyOneTemplate"})
    /\ res[Top.entry.insert].kind = "element"
    /\ \E k, j \in 1..Len(res) :
          /\ res[k].parent = Top.entry.insert
          /\ res[k].kind = "element"
          /\ res[j].parent = k

\* C4: when xsltApplyOneTemplate or xsltCallTemplate returns, the variable
\* stack is as deep as it was at the call.
C4_ScopesBalanced ==
    AtExit({"xsltApplyOneTemplate", "xsltCallTemplate"}) =>
        Len(ctxt.vars) = Len(Top.entry.vars)

\* A call-template that pushed a scope for its with-param children returns.
C4_Witness ==
    /\ AtExit({"xsltCallTemplate"})
    /\ Top.flag = 1
    /\ Len(Top.entry.vars) >= 1

\* C5: when the processing of the i-th node of an iteration begins, the
\* current node is that node, the context size is the length of the list and
\* the proximity position is i + 1; the nodes processed so far are the first
\* nodes of the list, in order, and all of them when the loop is over.
C5_Proximity ==
    /\ (/\ status = "running" /\ Len(stack) >= 2
        /\ Top.pc = "start"
        /\ Top.fn \in {"xsltProcessOneNode", "xsltApplyOneTemplate"}
        /\ Caller.fn \in {"xsltApplyTemplates", "xsltForEach"}
        /\ Caller.pc = "loop")
       => LET list == lists[Caller.list]
          IN  /\ Top.node = list[Caller.i]
              /\ ctxt.node = list[Caller.i]
              /\ ctxt.contextSize = Len(list)
              /\ ctxt.proximityPosition = Caller.i
    /\ \A k \in 1..Len(stack) :
          (stack[k].fn \in {"xsltApplyTemplates", "xsltForEach"} /\ stack[k].list # 0)
          => /\ stack[k].done = SubSeq(lists[stack[k].list], 1, stack[k].i)
             /\ stack[k].pc = "exit" => stack[k].i = Len(lists[stack[k].list])

\* The second node of a list that xsl:sort reordered is about to be processed.
C5_Witness ==
    /\ status = "running" /\ Len(stack) >= 2
    /\ Top.pc = "start"
    /\ Caller.fn \in {"xsltApplyTemplates", "xsltForEach"}
    /\ Caller.pc = "loop"
    /\ Caller.i = 2
    /\ lists[Caller.list][1] > lists[Caller.list][2]

\* C6: with a stylesheet without templates and without strip-space map, the
\* result document has only text and CDATA children, and its text is the
\* text of the source's text and CDATA nodes in document order.
C6_DefaultRecursion ==
    (/\ style.templates = <<>> /\ style.stripSpaces = <<>>
     /\ status = "idle" /\ runs >= 1 /\ retval = 1)
    => /\ \A k \in 2..Len(res) : res[k].kind \in {"text", "cdata"} /\ res[k].parent = 1
       /\ ResText(res, 1) = StringValue(srcAtCall, 1)

\* Such a run is over and copied text from two levels of the source.
C6_Witness ==
    /\ style.templates = <<>> /\ style.stripSpaces = <<>>
    /\ status = "idle" /\ runs >= 1 /\ retval = 1
    /\ Len(ResText(res, 1)) >= 3
    /\ \E k \in 1..Len(srcAtCall) : srcAtCall[k].type = "cdata"

\* xsltSort went through its loop and sorted the list.
Sorted == AtExit({"xsltSort"}) /\ Top.flag = 1

\* C7: after xsl:sort the list is a permutation of what it was, the key of
\* the i-th node was computed on that node at position i, a node whose key
\* comes strictly first in the requested direction comes first, and nodes
\* with equal keys keep their order.
C7_StableSort ==
    Sorted =>
        LET f == Top
            a == At(style, f.inst).a
            before == f.done
            after == lists[f.list]
            n == Len(before)
            str(i) == IF a.select = "." THEN StringValue(src, before[i])
                      ELSE NumberToString(i)
            less(i, j) == IF a.dtype = "number"
                          THEN StringToNumber(str(i)) < StringToNumber(str(j))
                          ELSE StrLess(str(i), str(j))
            first(i, j) == IF a.order = "descending" THEN less(j, i) ELSE less(i, j)
            pos(i) == CHOOSE k \in 1..n : after[k] = before[i]
        IN  /\ Len(after) = n
            /\ \A i \in 1..n : \E k \in 1..n : after[k] = before[i]
            /\ \A i \in 1..n :
                  f.results[i] = IF a.dtype = "number"
                                 THEN [str |-> <<>>, num |-> StringToNumber(str(i))]
                                 ELSE [str |-> str(i), num |-> 0]
            /\ \A i, j \in 1..n :
                  /\ first(i, j) => pos(i) < pos(j)
                  /\ (i < j /\ ~first(j, i)) => pos(i) < pos(j)

\* A sort changed the order of the list.
C7_Witness == Sorted /\ lists[Top.list] # Top.done

\* C8: a second application of the stylesheet to the same source tree gives
\* the result document of the first application (both having returned one).
C8_SecondRunSameResult ==
    (Len(history) >= 2 /\ history[1] # <<>> /\ history[2] # <<>>)
    => history[2] = history[1]

\* C9: an xsl:attribute executed while the insertion point has children does
\* not change the result tree, and when it has returned the body walk goes
\* on with the node that follows the instruction.
C9_AttributeAfterChildren ==
    [][/\ (/\ Running("xsltAttribute", "start")
           /\ ctxt.insert # 0
           /\ ResChildren(res, ctxt.insert) # <<>>)
          => res' = res
       /\ (/\ Running("xsltApplyOneTemplate", "restore")
           /\ At(style, Top.cur).name = "attribute"
           /\ ResChildren(res, Top.insert) # <<>>
           /\ PNext(style, Top.cur) # NullPtr)
          => /\ status' = "running"
             /\ stack'[Len(stack')].pc = "loop"
             /\ stack'[Len(stack')].cur = PNext(style, Top.cur)
             /\ res' = res]_vars

\* The element got the attribute set before its first child, did not get the
\* one set after it, and the instruction that follows the latter was executed.
C9_Witness ==
    \E k \in 1..Len(res) :
        /\ res[k].kind = "comment"
        /\ res[k].parent # 0
        /\ res[res[k].parent].kind = "element"
        /\ Len(res[res[k].parent].attrs) = 1
        /\ res[res[k].parent].attrs[1].name = "a"

\* C10: with an output method other than xml, html and text, the call
\* returns NULL, dispatches no template, leaves no result document and does
\* not change the source.
C10_UnsupportedMethod ==
    (style.method \notin {NULL, "xml", "html", "text"} /\ runs >= 1)
    => /\ status = "idle" /\ stack = <<>>
       /\ retval = 0
       /\ dispatched = 0
       /\ res = <<>>
       /\ ctxt = FreedContext
       /\ src = srcAtCall

\* The call with the unsupported method has returned.
C10_Witness ==
    /\ style.method \notin {NULL, "xml", "html", "text"}
    /\ runs >= 1 /\ status = "idle" /\ retval = 0

\* C11: when the DOCTYPE step is over, the context's output method is the
\* one chosen when the result document was created, and the result document
\* has an internal subset, named after its root element, exactly when the
\* method is XML, a public or system identifier is declared and the result
\* has a root element.
C11_DoctypeOnlyForXml ==
    status = "closing" =>
        LET root == xmlDocGetRootElement(res)
        IN  /\ ctxt.type = OutputType(style.method)
            /\ intSubset =
                  IF /\ OutputType(style.method) = "XML"
                     /\ style.doctypePublic # NULL \/ style.doctypeSystem # NULL
                     /\ root # 0
                  THEN res[root].name ELSE NULL

\* C12: while a call of xsltApplyStylesheet runs, its context and its result
\* document are allocated and not freed; when the call has returned, the
\* context it created has been freed exactly once, the result document is
\* the value returned on success and neither returned nor left allocated on
\* failure; the source document is never freed.
C12_ContextReleasedOnce ==
    /\ status \in {"running", "closing"} =>
          /\ ctxt.alive
          /\ mem = [ctxtNew |-> 1, ctxtFree |-> 0, resNew |-> 1, resFree |-> 0]
    /\ (status = "idle" /\ runs >= 1) =>
          /\ ~ctxt.alive
          /\ mem.ctxtFree = mem.ctxtNew
          /\ retval = 1 => (res # <<>> /\ mem.resNew = 1 /\ mem.resFree = 0)
          /\ retval = 0 => (res = <<>> /\ mem.resFree = mem.resNew)
    /\ ~src[1].freed

\* A call with a supported method failed after its context was created, and
\* an earlier call on the same source succeeded and stripped a node from it.
C12_Witness ==
    /\ status = "idle" /\ runs >= 2 /\ retval = 0
    /\ style.method \in {NULL, "xml", "html", "text"}
    /\ mem.ctxtNew = 1 /\ mem.ctxtFree = 1
    /\ history[1] # <<>>
    /\ \E n \in 1..Len(src) : src[n].freed

\* The documented strip policy for the blank text children of an element
\* called name: the map says strip, or it has no entry for the name and the
\* wildcard entry says strip.
StripPolicy(st, name) ==
    \/ xmlHashLookup(st.stripSpaces, name) = "strip"
    \/ /\ xmlHashLookup(st.stripSpaces, name) = NULL
       /\ xmlHashLookup(st.stripSpaces, "*") = "strip"

\* Node n of s is an ignorable blank text node whose policy is strip.
Strippable(st, s, n) ==
    /\ s[n].type = "text"
    /\ xsltIsBlank(s[n].content)
    /\ s[n].parent # 0
    /\ StripPolicy(st, s[s[n].parent].name)

\* C13: a step of a transformation changes the source tree only by unlinking
\* and freeing blank text nodes whose strip policy is strip; every other
\* node stays, with its fields and, among the nodes that stay, its position.
C13_OnlyBlankTextStripped ==
    [][\A n \in 1..Len(src) :
          LET Stays(k) == ~src'[k].freed
          IN  ~src[n].freed =>
                \/ src'[n].freed /\ Strippable(style, src, n)
                \/ /\ ~src'[n].freed
                   /\ src'[n] = [src[n] EXCEPT
                                   !.children = SelectSeq(src[n].children, Stays)]]_vars

\* C14: the default rule's child walk and apply-templates without select
\* take the same decision on a blank text child: the step that meets it
\* unlinks and frees it exactly when the documented policy for its parent's
\* name is strip.
C14_SameStripDecision ==
    [][/\ (/\ Running("xsltDefaultProcessOneNode", "loop")
           /\ Top.scur # 0
           /\ src[Top.scur].type = "text"
           /\ xsltIsBlank(src[Top.scur].content))
          => (src'[Top.scur].freed <=> Strippable(style, src, Top.scur))
       /\ (/\ Running("xsltApplyTemplates", "start")
           /\ At(style, Top.inst).a.select = NULL)
          => \A j \in 1..Len(src[Top.node].children) :
                LET k == src[Top.node].children[j]
                IN  (src[k].type = "text" /\ xsltIsBlank(src[k].content))
                    => (src'[k].freed <=> Strippable(style, src, k))]_vars

\* The call f is an instruction in error: a required attribute is missing,
\* the template called is unknown, or the select is no node-set.
InError(f) ==
    LET a == At(style, f.inst).a
        NoNodeSet ==
            /\ a.select # NULL
            /\ XPathEval(a.select, src, f.node, f.entry.contextSize,
                         f.entry.proximityPosition).type # "nodeset"
    IN  CASE f.fn = "xsltForEach" -> a.select = NULL \/ NoNodeSet
          [] f.fn = "xsltApplyTemplates" -> NoNodeSet
          [] f.fn = "xsltValueOf" -> a.select = NULL
          [] f.fn = "xsltIf" -> a.test = NULL
          [] f.fn = "xsltProcessingInstruction" -> a.name = NULL
          [] f.fn = "xsltCallTemplate" ->
                a.name = NULL \/ xsltFindTemplate(style, a.name) = 0
          [] OTHER -> FALSE

\* C15: an instruction in error does not stop the transformation, and when
\* it returns the result tree and the context's current node, node list,
\* context size, proximity position, insertion point and variable scopes are
\* what they were when it was called.
C15_ErrorsAreLocal ==
    (stack # <<>> /\ Top.inst # NullPtr /\ InError(Top)) =>
        /\ status # "crashed"
        /\ Top.pc = "exit" =>
              /\ res = Top.eres
              /\ ctxt.node = Top.entry.node
              /\ ctxt.nodeList = Top.entry.nodeList
              /\ ctxt.contextSize = Top.entry.contextSize
              /\ ctxt.proximityPosition = Top.entry.proximityPosition
              /\ ctxt.insert = Top.entry.insert
              /\ ctxt.vars = Top.entry.vars

\* C16: an xsl:value-of whose disable-output-escaping attribute is neither
\* yes nor no returns without having added anything to the result tree.
C16_InvalidValueSkipped ==
    (/\ AtExit({"xsltValueOf"})
     /\ At(style, Top.inst).a.doe \notin {NULL, "yes", "no"})
    => res = Top.eres

\* C18: when xsltApplyOneTemplate hands a body node to an instruction, the
\* call-template instruction included, the insertion point the instruction
\* writes under is the body's local insertion point: the copy of the literal
\* element that encloses the node, or the one the body started with.
C18_OutputUnderLiteralCopy ==
    (/\ status = "running" /\ Len(stack) >= 2
     /\ Top.pc = "start"
     /\ Caller.fn = "xsltApplyOneTemplate"
     /\ Caller.pc \in {"restore", "called"})
    => ctxt.insert = Caller.insert

RECURSIVE Up(_, _, _)
\* The d-th ancestor of result node n, 0 when there is none.
Up(r, n, d) ==
    IF d = 0 \/ n = 0 \/ n > Len(r) THEN (IF n > Len(r) THEN 0 ELSE n)
    ELSE Up(r, r[n].parent, d - 1)

\* The depth of the body node the call on top of the stack is visiting,
\* below the parent of the body.
Depth == Len(Top.cur.p) - Len(Top.inst.p)

\* C19: whenever xsltApplyOneTemplate visits a body node, its local
\* insertion point is a node of the result document: the insertion point the
\* body was entered with when the node is a child of the body's parent, and
\* otherwise an element copy as deep below that insertion point as the node
\* is below the body's first level.
C19_InsertFollowsDescent ==
    (/\ Running("xsltApplyOneTemplate", "loop")
     /\ Top.cur # NullPtr)
    => /\ Top.insert \in 1..Len(res)
       /\ Depth >= 0
       /\ Up(res, Top.insert, Depth) = Top.oldInsert
       /\ Top.oldInsert = Top.entry.insert
       /\ Depth > 0 => res[Top.insert].kind = "element"

\* A body node inside a literal element is visited, in a body started by an
\* instruction that is itself nested in a literal element.
C19_Witness ==
    /\ Running("xsltApplyOneTemplate", "loop")
    /\ Top.cur # NullPtr
    /\ Depth >= 1
    /\ Top.insert # Top.oldInsert
    /\ \E k \in 1..(Len(stack) - 1) :
          /\ stack[k].fn = "xsltApplyOneTemplate"
          /\ stack[k].insert # stack[k].oldInsert
    /\ \E k \in 1..(Len(stack) - 1) :
          /\ stack[k].fn = "xsltApplyOneTemplate"
          /\ stack[k].insert # stack[k].oldInsert

\* C20: the body of an xsl:if whose test is true is instantiated on the
\* source node the instruction was called with, the node its test was
\* evaluated on; an xsl:if whose test is false returns with the result tree
\* and the context fields as they were at the call.
C20_IfBodyOnTestedNode ==
    /\ (/\ status = "running" /\ Len(stack) >= 2
        /\ Top.fn = "xsltApplyOneTemplate" /\ Top.pc = "start"
        /\ Caller.fn = "xsltIf")
       => Top.node = Caller.node
    /\ (/\ AtExit({"xsltIf"})
        /\ At(style, Top.inst).a.test # NULL
        /\ Top.flag = 0)
       => /\ res = Top.eres
          /\ ctxt.node = Top.entry.node
          /\ ctxt.nodeList = Top.entry.nodeList
          /\ ctxt.contextSize = Top.entry.contextSize
          /\ ctxt.proximityPosition = Top.entry.proximityPosition
          /\ ctxt.insert = Top.entry.insert
          /\ ctxt.vars = Top.entry.vars

\* The stylesheets on which a transformation that runs alone has one result.
\* StyleTopAttribute sets an attribute on the document node, and what that
\* call leaves behind is not decided by xsltAttribute: two runs alone may
\* already differ.
OneResultAlone == Styles \ {StyleTopAttribute}

C21_OtherKindsCopied ==
    [][(/\ InBody
        /\ ~IS_XSLT_ELEM(style, Top.cur)
        /\ At(style, Top.cur).kind \notin {"text", "element"})
       => /\ Len(res') = Len(res) + 1
          /\ res'[Len(res')].kind = At(style, Top.cur).kind
          /\ res'[Len(res')].content = At(style, Top.cur).content
          /\ res'[Len(res')].parent = Top.insert]_vars

\* The xsl:sort children an enclosing instruction consumes: the children of
\* inst before its first child that is no xsl:sort.
RECURSIVE LeadingSorts(_, _)
LeadingSorts(st, ptr) ==
    IF IsSort(st, ptr) THEN <<ptr>> \o LeadingSorts(st, PNext(st, ptr)) ELSE <<>>

\* The xsl:sort with attributes a has a data-type other than text and
\* number, or an order other than ascending and descending.
UnsupportedSort(a) ==
    \/ a.dtype # NULL /\ a.dtype # "text" /\ a.dtype # "number"
    \/ a.order # NULL /\ a.order # "ascending" /\ a.order # "descending"

\* No xsl:sort child of inst can reorder a list of n nodes.
NoEffectiveSort(st, inst, n) ==
    LET ss == LeadingSorts(st, PChildren(st, inst))
    IN  n <= 1 \/ \A k \in 1..Len(ss) : UnsupportedSort(At(st, ss[k]).a)

RECURSIVE ParamNames(_)
ParamNames(ks) ==
    IF ks = <<>> THEN <<>>
    ELSE (IF Head(ks).kind = "xslt" /\ Head(ks).name = "with-param"
          THEN <<Head(ks).a.name>> ELSE <<>>) \o ParamNames(Tail(ks))

\* C23: a call-template of a known template runs the template's body on
\* the node of the call whatever its children are; when the body starts
\* the variable stack is the stack at the call, with one more scope holding
\* the names of all the with-param children if there are any, and unchanged
\* if there are none; when the call returns the stack is the stack at the
\* call again.
C23_ParamScope ==
    /\ [][(/\ Running("xsltCallTemplate", "start")
           /\ ctxt.insert # 0
           /\ At(style, Top.inst).a.name # NULL
           /\ xsltFindTemplate(style, At(style, Top.inst).a.name) # 0)
          => /\ Len(stack') = Len(stack) + 1
             /\ stack'[Len(stack')].fn = "xsltApplyOneTemplate"
             /\ stack'[Len(stack')].pc = "start"
             /\ stack'[Len(stack')].node = Top.node
             /\ stack'[Len(stack')].inst =
                    Content(style, xsltFindTemplate(style, At(style, Top.inst).a.name))]_vars
    /\ [](/\ Running("xsltApplyOneTemplate", "start")
          /\ Len(stack) >= 2
          /\ Caller.fn = "xsltCallTemplate"
          => LET names == ParamNames(At(style, Caller.inst).kids)
             IN  ctxt.vars = IF names = <<>> THEN Caller.entry.vars
                             ELSE Append(Caller.entry.vars, names))
    /\ [](AtExit({"xsltCallTemplate"}) => ctxt.vars = Top.entry.vars)

\* A call-template with two with-param children and a text child between
\* them has returned from the body of the named template.
C23_Witness ==
    /\ AtExit({"xsltCallTemplate"})
    /\ Top.flag = 1
    /\ Len(ParamNames(At(style, Top.inst).kids)) = 2
    /\ Len(At(style, Top.inst).kids) = 3
    /\ Len(res) > Len(Top.eres)

\* The frame the step pushes.
Pushed == stack'[Len(stack')]

\* The step appends to the result tree a copy of source node n, with its
\* kind and content, as last child of the insertion point of the context.
CopiesLeaf(n) ==
    res' = Append(res, [ResNode(src[n].type, src[n].type, src[n].content)
                           EXCEPT !.parent = ctxt.insert])

RECURSIVE DefaultOutput(_, _, _)
\* What the default rule alone adds for node n of s: the text and CDATA
\* nodes below n in document order, without the blank text nodes whose
\* strip policy is strip.
DefaultOutput(st, s, n) ==
    LET ch == s[n].children
    IN  Concat([k \in 1..Len(ch) |->
            IF s[ch[k]].type \in {"element", "document"}
            THEN DefaultOutput(st, s, ch[k])
            ELSE IF s[ch[k]].type \in {"text", "cdata"} /\ ~Strippable(st, s, ch[k])
            THEN <<[ResNode(s[ch[k]].type, s[ch[k]].type, s[ch[k]].content)
                       EXCEPT !.parent = 1]>>
            ELSE <<>>])

\* xsltProcessOneNode calls the body of the template the pattern engine
\* returns for the node, or the default rule when it returns none.
DispatchStep ==
    Running("xsltProcessOneNode", "start") =>
        LET t == xsltGetTemplate(style, src, Top.node)
        IN  /\ Len(stack') = Len(stack) + 1
            /\ res' = res
            /\ Pushed.node = Top.node
            /\ Pushed.pc = "start"
            /\ IF t # 0
               THEN Pushed.fn = "xsltApplyOneTemplate" /\ Pushed.inst = Content(style, t)
               ELSE Pushed.fn = "xsltDefaultProcessOneNode"

\* The default rule on a node that is no document and no element: a text
\* node is copied, a node of another kind adds nothing.
DefaultOnLeafStep ==
    (/\ Running("xsltDefaultProcessOneNode", "start")
     /\ src[Top.node].type \notin {"document", "element"})
    => IF src[Top.node].type = "text" THEN CopiesLeaf(Top.node) ELSE res' = res

\* The default rule on a document or an element starts with the first
\* child, dispatches an element child and goes on with the next sibling.
DefaultWalkStep ==
    /\ (/\ Running("xsltDefaultProcessOneNode", "start")
        /\ src[Top.node].type \in {"document", "element"})
       => stack' = SetTop([Top EXCEPT !.pc = "loop", !.flag = -1,
                                      !.scur = FirstChild(src, Top.node)])
    /\ (/\ Running("xsltDefaultProcessOneNode", "loop") /\ Top.scur # 0
        /\ src[Top.scur].type \in {"document", "element"})
       => /\ Len(stack') = Len(stack) + 1
          /\ res' = res
          /\ Pushed.fn = "xsltProcessOneNode"
          /\ Pushed.node = Top.scur
    /\ Running("xsltDefaultProcessOneNode", "next")
       => stack'[Len(stack)].scur = NextSibling(src, Top.scur)
    /\ (/\ Running("xsltDefaultProcessOneNode", "loop") /\ Top.scur # 0
        /\ src[Top.scur].type \notin {"document", "element"})
       => stack'[Len(stack)].scur = NextSibling(src, Top.scur)

\* C24 as amended: xsltProcessOneNode applies the body of the template the
\* pattern engine returns and otherwise the default rule; the default rule
\* on a document or element handles the children in document order,
\* dispatching elements and copying under the insertion point the CDATA
\* children and the text children that are not blank nodes to be stripped;
\* on a text node it appends a copy, on any other kind it adds nothing; a
\* transformation without templates yields the text and CDATA content of
\* the source, in document order, without the stripped blank text.
C24_DispatchAndDefaultRule ==
    /\ [][/\ DispatchStep
          /\ DefaultOnLeafStep
          /\ DefaultWalkStep
          /\ (/\ Running("xsltDefaultProcessOneNode", "loop") /\ Top.scur # 0
              /\ src[Top.scur].type \in {"text", "cdata"}
              /\ ~Strippable(style, src, Top.scur))
             => CopiesLeaf(Top.scur)]_vars
    /\ [](status = "closing" /\ style.templates = <<>>
          => res = <<res[1]>> \o DefaultOutput(style, srcAtCall, 1))

\* A transformation without templates is about to return a result with a
\* copied node, made from a source holding a blank text node that was
\* stripped.
C24_Witness ==
    /\ status = "closing" /\ style.templates = <<>>
    /\ Len(res) >= 2
    /\ \E n \in 1..Len(srcAtCall) :
          /\ ~srcAtCall[n].freed
          /\ Strippable(style, srcAtCall, n)

\* C24 as stated: every text or CDATA child met by the child walk of the
\* default rule is copied under the insertion point.
C24_EveryTextChildCopied ==
    [][(/\ Running("xsltDefaultProcessOneNode", "loop") /\ Top.scur # 0
        /\ src[Top.scur].type \in {"text", "cdata"})
       => CopiesLeaf(Top.scur)]_vars

\* C25: an xsl:attribute whose insertion point is no element, or has
\* children, or whose name is xmlns, or that has a namespace attribute, is
\* skipped: the call returns and the result tree is as it was.
C25_AttributeOnlyOnElement ==
    [][(/\ Running("xsltAttribute", "start")
        /\ \/ ctxt.insert = 0
           \/ res[ctxt.insert].kind # "element"
           \/ ResChildren(res, ctxt.insert) # <<>>
           \/ At(style, Top.inst).a.name = "xmlns"
           \/ At(style, Top.inst).a.namespace # NULL)
       => /\ res' = res
          /\ stack' = SetTop([Top EXCEPT !.pc = "exit"])]_vars

\* C26: the XPath context exists whenever an instruction is about to read
\* or write its context size or proximity position: when apply-templates
\* without select saves them, and while a for-each, an apply-templates or an
\* xsl:sort is in its loop.
C26_XPathContextCreated ==
    /\ (/\ Running("xsltApplyTemplates", "start")
        /\ At(style, Top.inst).a.select = NULL)
       => ctxt.xpathCtxt
    /\ (/\ status = "running" /\ stack # <<>>
        /\ Top.fn \in {"xsltApplyTemplates", "xsltForEach", "xsltSort"}
        /\ Top.pc \in {"sorts", "loop"})
       => ctxt.xpathCtxt

\* C27: no source node is freed while it is the current node or a member,
\* still to be processed, of a node list that a for-each or an
\* apply-templates on the stack is iterating.
C27_ListMembersAlive ==
    status = "running" =>
        /\ ctxt.node # 0 => ~src[ctxt.node].freed
        /\ \A k \in 1..Len(stack) :
              (/\ stack[k].fn \in {"xsltApplyTemplates", "xsltForEach"}
               /\ stack[k].pc \in {"sorts", "loop"})
              => \A j \in (stack[k].i + 1)..Len(lists[stack[k].list]) :
                    ~src[lists[stack[k].list][j]].freed

\* The namespace binding b is declared in the result tree r.
DeclaredIn(r, b) ==
    /\ b.owner \in 1..Len(r)
    /\ \E k \in 1..Len(r[b.owner].nsDef) :
          r[b.owner].nsDef[k] = Ns(b.prefix, b.href)

\* C28: the copy of a literal element that has a namespace binding is a new
\* childless node, last child of the insertion point; its binding has the
\* URI of the source element's and is declared in the result tree: the
\* binding of the insertion-point element if the URIs are equal, else the
\* binding in scope found upward from the copy, else a new binding declared
\* on the copy with the prefix and URI of the source's.
C28_CopyKeepsNamespace ==
    [][(/\ InBody
        /\ ~IS_XSLT_ELEM(style, Top.cur)
        /\ At(style, Top.cur).kind = "element"
        /\ At(style, Top.cur).ns # NoNs)
       => LET n == At(style, Top.cur)
              copy == Len(res) + 1
              found == xmlSearchNsByHref(res', copy, n.ns.href)
          IN  /\ Len(res') = copy
              /\ res'[copy].parent = Top.insert
              /\ res'[copy].name = n.name
              /\ res'[copy].ns.href = n.ns.href
              /\ DeclaredIn(res', res'[copy].ns)
              /\ IF /\ res[Top.insert].kind = "element"
                    /\ res[Top.insert].ns.href = n.ns.href
                 THEN res'[copy].ns = res[Top.insert].ns
                 ELSE /\ res'[copy].ns = found
                      /\ found.owner = copy
                         => \/ Ns(found.prefix, found.href) = n.ns
                            \/ \E k \in 1..Len(n.nsDef) :
                                  n.nsDef[k] = Ns(found.prefix, found.href)]_vars

====
